---- MODULE Spec2Model ----
(***************************************************************************)
(* The n8n workflow service of keepa_mcp_frontend (n8nService):            *)
(* executeWorkflow, executeWorkflowWithFiles and pollWorkflowStatus, as a  *)
(* state machine whose steps are the stretches of code between two awaits. *)
(* The environment (fetch, Response.json, setTimeout) settles each await.  *)
(***************************************************************************)
EXTENDS Integers, Sequences, FiniteSets, TLC

(***************************************************************************)
(* Bounds of the model.                                                    *)
(***************************************************************************)
\* the largest maxAttempts argument a caller passes to pollWorkflowStatus
MaxAttempts == 3
\* the number of service calls one behaviour makes, one after the other
MaxInvocations == 2
\* the number of polls a caller runs side by side
MaxPolls == 2
\* the number of times ProtectedRoute is rendered in one behaviour
MaxRenders == 4
\* the number of milliseconds the clock advances in one behaviour
MaxTicks == 2
\* the sample questions that get clicked: the first MaxSamples of SAMPLE_QUESTIONS
MaxSamples == 1
\* the number of Supabase requests the settings page makes in one behaviour
MaxRequests == 5

(***************************************************************************)
(* Numbers of the program.                                                 *)
(***************************************************************************)
\* pollWorkflowStatus: interval: number = 2000
DefaultInterval == 2000
\* pollWorkflowStatus: maxAttempts: number = 30
DefaultMaxAttempts == 30
\* the reading of the clock, in milliseconds, when a page is mounted
ClockStart == 1000

(***************************************************************************)
(* JavaScript values, tagged by their typeof/kind.  An object carries one  *)
(* slot per key of Keys; a key the object does not have reads undefined,   *)
(* as a property read in JavaScript does.                                  *)
(***************************************************************************)
Keys == {"status", "error", "result", "message"}

Undefined == [t |-> "undefined"]
Null == [t |-> "null"]
Bool(b) == [t |-> "boolean", b |-> b]
Num(n) == [t |-> "number", n |-> n]
BigInt(n) == [t |-> "bigint", n |-> n]
Str(s) == [t |-> "string", s |-> s]
FormData(name) == [t |-> "FormData", name |-> name]
Obj(status, error, result, message) ==
    [t |-> "object",
     f |-> [status |-> status, error |-> error, result |-> result, message |-> message]]

\* an Error object (Error, TypeError, SyntaxError): what `instanceof Error` accepts
Error(message) == [t |-> "Error", message |-> message]

\* ToBoolean, as `||` and `!` apply it
Truthy(v) ==
    CASE v.t \in {"undefined", "null"} -> FALSE
      [] v.t = "boolean" -> v.b
      [] v.t \in {"number", "bigint"} -> v.n # 0
      [] v.t = "string" -> v.s # ""
      [] OTHER -> TRUE

\* a || b
Or(a, b) == IF Truthy(a) THEN a ELSE b

(***************************************************************************)
(* Completions of a stretch of code: it returns a value or throws one.     *)
(***************************************************************************)
Return(v) == [kind |-> "return", value |-> v]
Throw(e) == [kind |-> "throw", value |-> e]

\* result.status / result.error: reading a property of null or undefined throws
GetProperty(v, k) ==
    CASE v.t \in {"undefined", "null"} ->
           Throw(Error("Cannot read properties of " \o v.t \o " (reading '" \o k \o "')"))
      [] v.t = "object" -> Return(v.f[k])
      [] OTHER -> Return(Undefined)

(***************************************************************************)
(* JSON.stringify on the payloads of the model: properties in the order of *)
(* KeyOrder, undefined properties left out, a BigInt anywhere throws.      *)
(***************************************************************************)
KeyOrder == <<"status", "error", "result", "message">>

RECURSIVE HasBigInt(_)
HasBigInt(v) ==
    CASE v.t = "bigint" -> TRUE
      [] v.t = "object" -> \E k \in Keys : HasBigInt(v.f[k])
      [] OTHER -> FALSE

RECURSIVE JSONText(_)
RECURSIVE JSONMembers(_, _, _)
JSONMembers(f, i, first) ==
    IF i > Len(KeyOrder) THEN ""
    ELSE LET k == KeyOrder[i]
         IN  IF f[k].t = "undefined" THEN JSONMembers(f, i + 1, first)
             ELSE (IF first THEN "" ELSE ",") \o ToString(k) \o ":" \o JSONText(f[k])
                  \o JSONMembers(f, i + 1, FALSE)
JSONText(v) ==
    CASE v.t = "null" -> "null"
      [] v.t = "boolean" -> IF v.b THEN "true" ELSE "false"
      [] v.t = "number" -> ToString(v.n)
      [] v.t = "string" -> ToString(v.s)
      [] v.t = "object" -> "{" \o JSONMembers(v.f, 1, TRUE) \o "}"
      [] OTHER -> "{}"

JSONStringify(v) ==
    IF HasBigInt(v) THEN Throw(Error("Do not know how to serialize a BigInt"))
    ELSE Return(Str(JSONText(v)))

(***************************************************************************)
(* Response.json() on the response bodies of the model.                    *)
(***************************************************************************)
BodyCompleted == "{\"status\":\"completed\",\"result\":42}"
BodySuccess == "{\"status\":\"success\"}"
BodyFailedMsg == "{\"status\":\"failed\",\"error\":\"bad input\"}"
BodyFailedBare == "{\"status\":\"failed\"}"
BodyErrorEmpty == "{\"status\":\"error\",\"error\":\"\"}"
BodyErrorObject == "{\"status\":\"error\",\"error\":{\"message\":\"boom\"}}"
BodyProcessing == "{\"status\":\"processing\"}"
BodyEmptyObject == "{}"
BodyErrorField == "{\"error\":\"quota exceeded\"}"
BodyNull == "null"
BodyZero == "0"
BodyFalse == "false"
BodyEmptyString == "\"\""
BodyHtml == "<html>Bad Gateway</html>"

Bodies ==
    {BodyCompleted, BodySuccess, BodyFailedMsg, BodyFailedBare, BodyErrorEmpty,
     BodyErrorObject, BodyProcessing, BodyEmptyObject, BodyErrorField, BodyNull,
     BodyZero, BodyFalse, BodyEmptyString, BodyHtml}

JSONParse(text) ==
    CASE text = BodyCompleted -> Return(Obj(Str("completed"), Undefined, Num(42), Undefined))
      [] text = BodySuccess -> Return(Obj(Str("success"), Undefined, Undefined, Undefined))
      [] text = BodyFailedMsg -> Return(Obj(Str("failed"), Str("bad input"), Undefined, Undefined))
      [] text = BodyFailedBare -> Return(Obj(Str("failed"), Undefined, Undefined, Undefined))
      [] text = BodyErrorEmpty -> Return(Obj(Str("error"), Str(""), Undefined, Undefined))
      [] text = BodyErrorObject ->
           Return(Obj(Str("error"), Obj(Undefined, Undefined, Undefined, Str("boom")),
                      Undefined, Undefined))
      [] text = BodyProcessing -> Return(Obj(Str("processing"), Undefined, Undefined, Undefined))
      [] text = BodyEmptyObject -> Return(Obj(Undefined, Undefined, Undefined, Undefined))
      [] text = BodyErrorField ->
           Return(Obj(Undefined, Str("quota exceeded"), Undefined, Undefined))
      [] text = BodyNull -> Return(Null)
      [] text = BodyZero -> Return(Num(0))
      [] text = BodyFalse -> Return(Bool(FALSE))
      [] text = BodyEmptyString -> Return(Str(""))
      [] OTHER -> Throw(Error("Unexpected token '<', \"<html>Bad \"... is not valid JSON"))

(***************************************************************************)
(* The inputs of the model.                                                *)
(***************************************************************************)
DefaultUrl == "https://n8n.example/webhook/default"
OverrideUrl == "https://n8n.example/webhook/override"

\* import.meta.env.VITE_N8N_WEBHOOK_URL: unset, set to nothing, or set
EnvUrls == {Undefined, Str(""), Str(DefaultUrl)}
\* the webhookUrl argument: left out, empty, or given
UrlArgs == {Undefined, Str(""), Str(OverrideUrl)}

\* the data argument of executeWorkflow; the last one holds a BigInt
Payloads ==
    {Obj(Undefined, Undefined, Undefined, Str("top sellers")),
     Obj(Undefined, Undefined, Num(7), Str("")),
     Obj(Undefined, Undefined, BigInt(7), Str("top sellers"))}
FormDatas == {FormData("upload-1"), FormData("upload-2")}
\* the Dashboard's form: its fields as useForm() starts them, and as a user fills
\* them in (strings, numbers and booleans only)
FormDefaults == Obj(Undefined, Undefined, Undefined, Str(""))
FormValues == {FormDefaults} \cup {d \in Payloads : ~HasBigInt(d)}

JobIds == {"job-17"}
StatusUrls == {"https://n8n.example/status"}
Intervals == {10, 2000}
AttemptArgs == (0 - 1) .. MaxAttempts
\* the optional arguments of pollWorkflowStatus: given, or left out
IntervalArgs == {Undefined, Num(10)}
BudgetArgs == {Undefined} \cup {Num(m) : m \in AttemptArgs}

\* a Response: its status and the text of its body
Response(status, body) == Return([status |-> status, body |-> body])

\* what a fetch settles with: a rejection (with an Error, or with a value that is
\* no Error) or a Response; every body under 200, some under 201, 404 and 500
FetchOutcomes ==
    {Throw(Error("Failed to fetch")), Throw(Str("aborted"))}
    \cup {Response(200, b) : b \in Bodies}
    \cup {Response(201, b) : b \in {BodyCompleted, BodyHtml}}
    \cup {Response(500, b) : b \in {BodyCompleted, BodyFailedMsg, BodyHtml}}
    \cup {Response(404, BodyHtml)}

\* what a status endpoint answers a poll with: one body that keeps the poll going,
\* the bodies and failures that end it
PollOutcomes ==
    {Throw(Error("Failed to fetch"))}
    \cup {Response(200, b) : b \in {BodyProcessing, BodyCompleted, BodyFailedMsg,
                                    BodyNull, BodyHtml}}
    \cup {Response(500, BodyHtml)}

(***************************************************************************)
(* State.                                                                  *)
(***************************************************************************)
VARIABLES
    N8N_WEBHOOK_URL,  \* the module constant read from the environment
    op,               \* the service function that is running or ran last
    pc,               \* idle, fetch, json, timer (the await it is suspended at), returned, raised
    args,             \* its arguments
    attempts,         \* pollWorkflowStatus: let attempts
    requests,         \* the fetch calls of this invocation, in order
    outcomes,         \* what each of them settled with, in order
    timersSet,        \* setTimeout calls of this invocation
    timersFired,      \* those that have elapsed
    ret,              \* the envelope the invocation returned
    invocations,      \* service calls started so far
    repeated,         \* this call has the function and arguments of the one before it
    totalCalls,       \* fetch calls of all invocations so far
    polls,            \* the polls a caller runs side by side: one record of locals each
    user,             \* useAuth().user: null or the signed-in user
    loading,          \* useAuth().loading
    rendered,         \* what ProtectedRoute returned, render by render
    formStatus,       \* Dashboard: status, 'idle' | 'processing' | 'success' | 'error'
    formResult,       \* Dashboard: result
    errorMessage,     \* Dashboard: useState errorMessage
    submitting,       \* Dashboard: onSubmit is suspended at await executeWorkflow(...)
    fields,           \* Dashboard: the values of the form's fields
    messages,         \* chat Dashboard: the transcript
    input,            \* chat Dashboard: the text in the input box
    isLoading,        \* chat Dashboard: a reply is awaited
    showSamples,      \* chat Dashboard: the sample questions are shown
    replying,         \* chat Dashboard: a handler is suspended at await executeWorkflow
    now,              \* the clock: Date.now()
    apiKeys,          \* Settings: the keys displayed
    keysLoading,      \* Settings: loading
    saving,           \* Settings: saving
    notice,           \* Settings: message, null or {type, text}
    keyName,          \* Settings: the name field
    keyValue,         \* Settings: the value field
    store,            \* the rows of user_api_keys, newest first
    inflight,         \* the Supabase requests that have not settled
    settled           \* the number of Supabase requests that have settled

serviceVars ==
    <<N8N_WEBHOOK_URL, op, pc, args, attempts, requests, outcomes, timersSet,
      timersFired, ret, invocations, repeated, totalCalls>>
routeVars == <<user, loading, rendered>>
formVars == <<formStatus, formResult, errorMessage, submitting, fields>>

chatVars == <<messages, input, isLoading, showSamples, replying, now>>
settingsVars ==
    <<apiKeys, keysLoading, saving, notice, keyName, keyValue, store, inflight, settled>>

vars == <<serviceVars, polls, routeVars, formVars, chatVars, settingsVars>>

NoEnvelope == [none |-> TRUE]
NoArgs == [none |-> TRUE]
Last(s) == s[Len(s)]

\* a stretch of code that ends suspended at an await
AwaitFetch(request) == [kind |-> "fetch", value |-> request]
AwaitJson == [kind |-> "json", value |-> Undefined]
AwaitTimer(ms) == [kind |-> "timer", value |-> ms]

(***************************************************************************)
(* n8nService, stretch by stretch.                                         *)
(***************************************************************************)
\* ErrorMessage as `error: error`: the thrown value itself
ErrorMessageRaw(error) == error

\* error instanceof Error ? error.message : 'An unknown error occurred'
ErrorMessage(error) ==
    IF error.t = "Error" THEN Str(error.message) ELSE Str("An unknown error occurred")

\* the catch block of the three functions
CatchBlock(error) == Return([success |-> FALSE, error |-> ErrorMessage(error)])

\* TryCatch without its catch block: what is thrown leaves the function
TryCatchRethrow(c) == c

\* try { stretch } catch (error) { ... }
TryCatch(c) == IF c.kind = "throw" THEN CatchBlock(c.value) ELSE c

ConfigErrorMessage ==
    "Webhook URL not configured. Please set VITE_N8N_WEBHOOK_URL in your .env file."
ConfigError == [success |-> FALSE, error |-> Str(ConfigErrorMessage)]

\* const url = webhookUrl || N8N_WEBHOOK_URL
\* ResolveUrl as N8N_WEBHOOK_URL || webhookUrl: the default before the override
ResolveUrlDefaultFirst(webhookUrl) == Or(N8N_WEBHOOK_URL, webhookUrl)

\* const url = webhookUrl || N8N_WEBHOOK_URL
ResolveUrl(webhookUrl) == Or(webhookUrl, N8N_WEBHOOK_URL)

\* UrlMissing as url === undefined: an empty string passes
UrlMissingUndefinedOnly(url) == url = Undefined

\* if (!url)
UrlMissing(url) == ~Truthy(url)

JsonHeaders == {<<"Content-Type", "application/json">>}
NoHeaders == {}

\* executeWorkflow that answers a repeated call from the envelope of the call before
executeWorkflowStartCached(data, webhookUrl) ==
    IF /\ op = "executeWorkflow"
       /\ pc = "returned"
       /\ args = [data |-> data, webhookUrl |-> webhookUrl]
       /\ ret.success
    THEN Return(ret)
    ELSE LET url == ResolveUrl(webhookUrl)
         IN  IF UrlMissing(url) THEN Return(ConfigError)
             ELSE TryCatch(
                    LET body == JSONStringify(data)
                    IN  IF body.kind = "throw" THEN body
                        ELSE AwaitFetch([method |-> "POST", url |-> url.s,
                                         headers |-> JsonHeaders, body |-> body.value]))

\* executeWorkflow up to its first await
executeWorkflowStart(data, webhookUrl) ==
    LET url == ResolveUrl(webhookUrl)
    IN  IF UrlMissing(url) THEN Return(ConfigError)
        ELSE TryCatch(
               LET body == JSONStringify(data)
               IN  IF body.kind = "throw" THEN body
                   ELSE AwaitFetch([method |-> "POST", url |-> url.s,
                                    headers |-> JsonHeaders, body |-> body.value]))

\* executeWorkflowWithFiles that sets the JSON Content-Type header as executeWorkflow does
executeWorkflowWithFilesStartJson(formData, webhookUrl) ==
    LET url == ResolveUrl(webhookUrl)
    IN  IF UrlMissing(url) THEN Return(ConfigError)
        ELSE TryCatch(AwaitFetch([method |-> "POST", url |-> url.s,
                                  headers |-> JsonHeaders, body |-> formData]))

\* executeWorkflowWithFiles up to its first await
executeWorkflowWithFilesStart(formData, webhookUrl) ==
    LET url == ResolveUrl(webhookUrl)
    IN  IF UrlMissing(url) THEN Return(ConfigError)
        ELSE TryCatch(AwaitFetch([method |-> "POST", url |-> url.s,
                                  headers |-> NoHeaders, body |-> formData]))

\* Response.ok
ResponseOk(status) == status >= 200 /\ status <= 299

HttpError(status) == Error("HTTP error! status: " \o ToString(status))

\* AfterFetch that fetches once more after a response that is not ok
AfterFetchRetry(outcome) ==
    TryCatch(
      IF outcome.kind = "throw" THEN outcome
      ELSE IF ~ResponseOk(outcome.value.status)
           THEN IF Len(requests) < 2 THEN AwaitFetch(Last(requests))
                ELSE Throw(HttpError(outcome.value.status))
      ELSE AwaitJson)

\* AfterFetch whose poll tolerates a failed attempt: it waits and tries again
AfterFetchTolerant(outcome) ==
    IF op = "pollWorkflowStatus"
         /\ (outcome.kind = "throw" \/ ~ResponseOk(outcome.value.status))
    THEN AwaitTimer(args.interval)
    ELSE TryCatch(
           IF outcome.kind = "throw" THEN outcome
           ELSE IF ~ResponseOk(outcome.value.status)
                THEN Throw(HttpError(outcome.value.status))
           ELSE AwaitJson)

\* from the settling of fetch to the next await: the rejection is thrown at the
\* await; if (!response.ok) throw ...; then response.json() is awaited
AfterFetch(outcome) ==
    TryCatch(
      IF outcome.kind = "throw" THEN outcome
      ELSE IF ~ResponseOk(outcome.value.status) THEN Throw(HttpError(outcome.value.status))
      ELSE AwaitJson)

\* AfterJson that takes a falsy parsed body for a failure
AfterJsonTruthy(parsed) ==
    TryCatch(
      IF parsed.kind = "throw" THEN parsed
      ELSE IF ~Truthy(parsed.value) THEN Throw(Error("Empty response"))
      ELSE Return([success |-> TRUE, data |-> parsed.value]))

\* executeWorkflow and executeWorkflowWithFiles from the settling of response.json()
AfterJson(parsed) ==
    TryCatch(
      IF parsed.kind = "throw" THEN parsed
      ELSE Return([success |-> TRUE, data |-> parsed.value]))

TimeoutEnvelope == [success |-> FALSE, error |-> Str("Workflow execution timed out")]

WorkflowFailedMessage == "Workflow execution failed"

\* PollAfterJson with `error: result.error`, without the fallback message
PollAfterJsonNoFallback(parsed, interval) ==
    TryCatch(
      IF parsed.kind = "throw" THEN parsed
      ELSE LET result == parsed.value
               status == GetProperty(result, "status")
           IN  IF status.kind = "throw" THEN status
               ELSE IF status.value = Str("completed") \/ status.value = Str("success")
                    THEN Return([success |-> TRUE, data |-> result])
               ELSE IF status.value = Str("failed") \/ status.value = Str("error")
                    THEN Return([success |-> FALSE, error |-> GetProperty(result, "error").value])
               ELSE AwaitTimer(interval))

\* PollAfterJson that knows 'completed' only: 'success' is taken for still running
PollAfterJsonCompletedOnly(parsed, interval) ==
    TryCatch(
      IF parsed.kind = "throw" THEN parsed
      ELSE LET result == parsed.value
               status == GetProperty(result, "status")
           IN  IF status.kind = "throw" THEN status
               ELSE IF status.value = Str("completed")
                    THEN Return([success |-> TRUE, data |-> result])
               ELSE IF status.value = Str("failed") \/ status.value = Str("error")
                    THEN Return([success |-> FALSE,
                                 error |-> Or(GetProperty(result, "error").value,
                                              Str(WorkflowFailedMessage))])
               ELSE AwaitTimer(interval))

\* PollAfterJson that always reports the generic message
PollAfterJsonGenericError(parsed, interval) ==
    TryCatch(
      IF parsed.kind = "throw" THEN parsed
      ELSE LET result == parsed.value
               status == GetProperty(result, "status")
           IN  IF status.kind = "throw" THEN status
               ELSE IF status.value = Str("completed") \/ status.value = Str("success")
                    THEN Return([success |-> TRUE, data |-> result])
               ELSE IF status.value = Str("failed") \/ status.value = Str("error")
                    THEN Return([success |-> FALSE, error |-> Str(WorkflowFailedMessage)])
               ELSE AwaitTimer(interval))

\* PollAfterJson that takes a body without a status for a failure
PollAfterJsonStatusRequired(parsed, interval) ==
    TryCatch(
      IF parsed.kind = "throw" THEN parsed
      ELSE LET result == parsed.value
               status == GetProperty(result, "status")
           IN  IF status.kind = "throw" THEN status
               ELSE IF status.value = Str("completed") \/ status.value = Str("success")
                    THEN Return([success |-> TRUE, data |-> result])
               ELSE IF \/ status.value = Str("failed") \/ status.value = Str("error")
                       \/ status.value = Undefined
                    THEN Return([success |-> FALSE,
                                 error |-> Or(GetProperty(result, "error").value,
                                              Str(WorkflowFailedMessage))])
               ELSE AwaitTimer(interval))

\* PollAfterJson that returns the timeout envelope at once after the last pending
\* response of the budget, without the wait
PollAfterJsonSkipsLastWait(parsed, interval) ==
    TryCatch(
      IF parsed.kind = "throw" THEN parsed
      ELSE LET result == parsed.value
               status == GetProperty(result, "status")
           IN  IF status.kind = "throw" THEN status
               ELSE IF status.value = Str("completed") \/ status.value = Str("success")
                    THEN Return([success |-> TRUE, data |-> result])
               ELSE IF status.value = Str("failed") \/ status.value = Str("error")
                    THEN Return([success |-> FALSE,
                                 error |-> Or(GetProperty(result, "error").value,
                                              Str(WorkflowFailedMessage))])
               ELSE IF attempts + 1 >= args.maxAttempts THEN Return(TimeoutEnvelope)
               ELSE AwaitTimer(interval))

\* PollAfterJson that polls again at once, without the wait between attempts
PollAfterJsonNoWait(parsed, interval) ==
    TryCatch(
      IF parsed.kind = "throw" THEN parsed
      ELSE LET result == parsed.value
               status == GetProperty(result, "status")
           IN  IF status.kind = "throw" THEN status
               ELSE IF status.value = Str("completed") \/ status.value = Str("success")
                    THEN Return([success |-> TRUE, data |-> result])
               ELSE IF status.value = Str("failed") \/ status.value = Str("error")
                    THEN Return([success |-> FALSE,
                                 error |-> Or(GetProperty(result, "error").value,
                                              Str(WorkflowFailedMessage))])
               ELSE AwaitFetch(Last(requests)))

\* pollWorkflowStatus from the settling of response.json() to the next await
PollAfterJson(parsed, interval) ==
    TryCatch(
      IF parsed.kind = "throw" THEN parsed
      ELSE LET result == parsed.value
               status == GetProperty(result, "status")
           IN  IF status.kind = "throw" THEN status
               ELSE IF status.value = Str("completed") \/ status.value = Str("success")
                    THEN Return([success |-> TRUE, data |-> result])
               ELSE IF status.value = Str("failed") \/ status.value = Str("error")
                    THEN Return([success |-> FALSE,
                                 error |-> Or(GetProperty(result, "error").value,
                                              Str(WorkflowFailedMessage))])
               ELSE AwaitTimer(interval))

\* PollLoop without the return after the loop: with the budget used up the poll
\* awaits a promise that nothing settles
PollLoopNoTimeout(att, a) ==
    IF att < a.maxAttempts
    THEN TryCatch(AwaitFetch([method |-> "GET", url |-> a.statusUrl \o "/" \o a.jobId,
                              headers |-> NoHeaders, body |-> Undefined]))
    ELSE [kind |-> "never", value |-> Undefined]

\* PollLoop with `attempts <= maxAttempts` as the loop condition
PollLoopInclusive(att, a) ==
    IF att <= a.maxAttempts
    THEN TryCatch(AwaitFetch([method |-> "GET", url |-> a.statusUrl \o "/" \o a.jobId,
                              headers |-> NoHeaders, body |-> Undefined]))
    ELSE Return(TimeoutEnvelope)

\* while (attempts < maxAttempts) { try { fetch(`${statusUrl}/${jobId}`) ... ; after
\* the loop the timeout envelope is returned
PollLoop(att, a) ==
    IF att < a.maxAttempts
    THEN TryCatch(AwaitFetch([method |-> "GET", url |-> a.statusUrl \o "/" \o a.jobId,
                              headers |-> NoHeaders, body |-> Undefined]))
    ELSE Return(TimeoutEnvelope)

(***************************************************************************)
(* The state machine.  A step runs one stretch of the running function and *)
(* leaves it suspended at the next await, returned, or raised (its promise *)
(* rejected).                                                              *)
(***************************************************************************)
ServiceInit ==
    /\ N8N_WEBHOOK_URL \in EnvUrls
    /\ op = "none"
    /\ pc = "idle"
    /\ args = NoArgs
    /\ attempts = 0
    /\ requests = <<>>
    /\ outcomes = <<>>
    /\ timersSet = 0
    /\ timersFired = 0
    /\ ret = NoEnvelope
    /\ invocations = 0
    /\ repeated = FALSE
    /\ totalCalls = 0

\* Proceed whose poll reports the failure of an attempt and then waits and goes
\* round the loop again, as if the envelope were handed to a callback
ProceedGoesOn(c, reqs, timers) ==
    LET goesOn == /\ c.kind = "return"
                  /\ ~c.value.success
                  /\ op = "pollWorkflowStatus"
                  /\ pc \in {"fetch", "json"}
    IN  /\ pc' = CASE goesOn -> "timer"
                   [] c.kind = "return" -> "returned"
                   [] c.kind = "throw" -> "raised"
                   [] OTHER -> c.kind
        /\ ret' = IF c.kind = "return" THEN c.value
                  ELSE IF pc \in {"idle", "returned"} THEN NoEnvelope
                  ELSE ret
        /\ requests' = IF c.kind = "fetch" THEN Append(reqs, c.value) ELSE reqs
        /\ totalCalls' = IF c.kind = "fetch" THEN totalCalls + 1 ELSE totalCalls
        /\ timersSet' = IF c.kind = "timer" \/ goesOn THEN timers + 1 ELSE timers

\* the running function goes on as the completion c of its stretch says
Proceed(c, reqs, timers) ==
    /\ pc' = CASE c.kind = "return" -> "returned"
               [] c.kind = "throw" -> "raised"
               [] OTHER -> c.kind
    /\ ret' = IF c.kind = "return" THEN c.value ELSE NoEnvelope
    /\ requests' = IF c.kind = "fetch" THEN Append(reqs, c.value) ELSE reqs
    /\ totalCalls' = IF c.kind = "fetch" THEN totalCalls + 1 ELSE totalCalls
    /\ timersSet' = IF c.kind = "timer" THEN timers + 1 ELSE timers

\* a caller may call the service when no call of it is running
CanCall == pc \in {"idle", "returned"} /\ invocations < MaxInvocations

Called(fn, a) ==
    /\ op' = fn
    /\ args' = a
    /\ attempts' = 0
    /\ outcomes' = <<>>
    /\ timersFired' = 0
    /\ invocations' = invocations + 1
    /\ repeated' = (invocations > 0 /\ op = fn /\ args = a)
    /\ UNCHANGED N8N_WEBHOOK_URL

executeWorkflow(data, webhookUrl) ==
    /\ CanCall
    /\ Called("executeWorkflow", [data |-> data, webhookUrl |-> webhookUrl])
    /\ Proceed(executeWorkflowStart(data, webhookUrl), <<>>, 0)

executeWorkflowWithFiles(formData, webhookUrl) ==
    /\ CanCall
    /\ Called("executeWorkflowWithFiles", [data |-> formData, webhookUrl |-> webhookUrl])
    /\ Proceed(executeWorkflowWithFilesStart(formData, webhookUrl), <<>>, 0)

\* a parameter with a default value: the default stands in for undefined
DefaultParam(arg, default) == IF arg = Undefined THEN default ELSE arg.n

\* the parameters of pollWorkflowStatus as the body sees them, and as they were passed
PollArgs(jobId, statusUrl, interval, maxAttempts) ==
    [jobId |-> jobId, statusUrl |-> statusUrl,
     interval |-> DefaultParam(interval, DefaultInterval),
     maxAttempts |-> DefaultParam(maxAttempts, DefaultMaxAttempts),
     passed |-> [interval |-> interval, maxAttempts |-> maxAttempts]]

pollWorkflowStatus(jobId, statusUrl, interval, maxAttempts) ==
    LET a == PollArgs(jobId, statusUrl, interval, maxAttempts)
    IN  /\ CanCall
        /\ Called("pollWorkflowStatus", a)
        /\ Proceed(PollLoop(0, a), <<>>, 0)

\* the pending fetch settles with outcome
FetchSettles(outcome) ==
    /\ pc = "fetch"
    /\ outcomes' = Append(outcomes, outcome)
    /\ Proceed(AfterFetch(outcome), requests, timersSet)
    /\ UNCHANGED <<N8N_WEBHOOK_URL, op, args, attempts, timersFired, invocations, repeated>>

\* the pending response.json() settles: the body of the response parses or not
JsonSettles ==
    /\ pc = "json"
    /\ LET parsed == JSONParse(Last(outcomes).value.body)
       IN  IF op = "pollWorkflowStatus"
           THEN Proceed(PollAfterJson(parsed, args.interval), requests, timersSet)
           ELSE Proceed(AfterJson(parsed), requests, timersSet)
    /\ UNCHANGED <<N8N_WEBHOOK_URL, op, args, attempts, outcomes, timersFired, invocations,
                   repeated>>

\* the pending setTimeout elapses: attempts++, and the loop goes round
TimerFires ==
    /\ pc = "timer"
    /\ timersFired' = timersFired + 1
    /\ attempts' = attempts + 1
    /\ Proceed(PollLoop(attempts + 1, args), requests, timersSet)
    /\ UNCHANGED <<N8N_WEBHOOK_URL, op, args, outcomes, invocations, repeated>>

(***************************************************************************)
(* The parts of the application that a specification leaves out stay as    *)
(* they are before anything is mounted or called.                          *)
(***************************************************************************)
NoPolls == polls = <<>>
NoRoute == user = Null /\ loading = TRUE /\ rendered = <<>>
NoForm ==
    /\ formStatus = "idle"
    /\ formResult = Null
    /\ errorMessage = Str("")
    /\ submitting = FALSE
    /\ fields = FormDefaults

\* the chat Dashboard as it is mounted: the greeting alone
Greeting ==
    [id |-> "1", role |-> "assistant",
     content |-> Str("Hello! I'm Seller Scout AI. Skip the data digging - just ask what's selling, what's trending, or where the next opportunity lies. How can I help you today?"),
     timestamp |-> ClockStart]
NoChat ==
    /\ messages = <<Greeting>>
    /\ input = ""
    /\ isLoading = FALSE
    /\ showSamples = TRUE
    /\ replying = FALSE
    /\ now = ClockStart
NoSettings ==
    /\ apiKeys = <<>>
    /\ keysLoading = TRUE
    /\ saving = FALSE
    /\ notice = Null
    /\ keyName = ""
    /\ keyValue = ""
    /\ store = <<>>
    /\ inflight = {}
    /\ settled = 0

\* the service alone, called by one caller, one call after the other
Init == ServiceInit /\ NoPolls /\ NoRoute /\ NoForm /\ NoChat /\ NoSettings

Next ==
    \/ /\ \E data \in Payloads, webhookUrl \in UrlArgs : executeWorkflow(data, webhookUrl)
       /\ UNCHANGED <<polls, routeVars, formVars, chatVars, settingsVars>>
    \/ /\ \E formData \in FormDatas, webhookUrl \in UrlArgs :
            executeWorkflowWithFiles(formData, webhookUrl)
       /\ UNCHANGED <<polls, routeVars, formVars, chatVars, settingsVars>>
    \/ /\ \E jobId \in JobIds, statusUrl \in StatusUrls, interval \in Intervals,
             maxAttempts \in AttemptArgs :
            pollWorkflowStatus(jobId, statusUrl, Num(interval), Num(maxAttempts))
       /\ UNCHANGED <<polls, routeVars, formVars, chatVars, settingsVars>>
    \/ /\ \E outcome \in FetchOutcomes : FetchSettles(outcome)
       /\ UNCHANGED <<polls, routeVars, formVars, chatVars, settingsVars>>
    \/ JsonSettles /\ UNCHANGED <<polls, routeVars, formVars, chatVars, settingsVars>>
    \/ TimerFires /\ UNCHANGED <<polls, routeVars, formVars, chatVars, settingsVars>>

Spec == Init /\ [][Next]_vars

(***************************************************************************)
(* Several polls side by side.  Each call of pollWorkflowStatus has its    *)
(* own parameters and its own `attempts`; polls[i] holds those of the i-th *)
(* call, and the stretches are the ones of the single call above.          *)
(***************************************************************************)
\* the budgets of the polls run side by side
SideBySideBudgets == {Num(1), Num(2)}

\* the locals a call of pollWorkflowStatus starts with
NewPoll(a) ==
    [pc |-> "idle", args |-> a, attempts |-> 0, requests |-> <<>>, outcomes |-> <<>>,
     timersSet |-> 0, timersFired |-> 0, ret |-> NoEnvelope]

\* the poll p goes on as the completion c of its stretch says
Resume(p, c) ==
    [p EXCEPT !.pc = CASE c.kind = "return" -> "returned"
                       [] c.kind = "throw" -> "raised"
                       [] OTHER -> c.kind,
              !.ret = IF c.kind = "return" THEN c.value ELSE NoEnvelope,
              !.requests = IF c.kind = "fetch" THEN Append(@, c.value) ELSE @,
              !.timersSet = IF c.kind = "timer" THEN @ + 1 ELSE @]

RECURSIVE SumAttempts(_)
SumAttempts(n) == IF n = 0 THEN 0 ELSE polls[n].attempts + SumAttempts(n - 1)

\* `attempts` as one counter of the module, which all polls count on
AttemptsShared(i) == SumAttempts(Len(polls))

\* let attempts = 0: a local of the call
AttemptsOf(i) == polls[i].attempts

StartPoll(jobId, statusUrl, interval, maxAttempts) ==
    LET a == PollArgs(jobId, statusUrl, interval, maxAttempts)
    IN  /\ Len(polls) < MaxPolls
        /\ polls' = Append(polls, Resume(NewPoll(a), PollLoop(0, a)))
        /\ UNCHANGED <<serviceVars, routeVars, formVars, chatVars, settingsVars>>

PollFetchSettles(i, outcome) ==
    /\ polls[i].pc = "fetch"
    /\ polls' = [polls EXCEPT ![i] =
                   Resume([@ EXCEPT !.outcomes = Append(@, outcome)], AfterFetch(outcome))]
    /\ UNCHANGED <<serviceVars, routeVars, formVars, chatVars, settingsVars>>

PollJsonSettles(i) ==
    /\ polls[i].pc = "json"
    /\ polls' = [polls EXCEPT ![i] =
                   Resume(@, PollAfterJson(JSONParse(Last(@.outcomes).value.body),
                                           @.args.interval))]
    /\ UNCHANGED <<serviceVars, routeVars, formVars, chatVars, settingsVars>>

PollTimerFires(i) ==
    /\ polls[i].pc = "timer"
    /\ polls' = [polls EXCEPT ![i] =
                   Resume([@ EXCEPT !.timersFired = @ + 1, !.attempts = @ + 1],
                          PollLoop(AttemptsOf(i) + 1, @.args))]
    /\ UNCHANGED <<serviceVars, routeVars, formVars, chatVars, settingsVars>>

NextConcurrent ==
    \/ \E jobId \in JobIds, statusUrl \in StatusUrls, maxAttempts \in SideBySideBudgets :
         StartPoll(jobId, statusUrl, Num(10), maxAttempts)
    \/ \E i \in 1 .. Len(polls), outcome \in PollOutcomes : PollFetchSettles(i, outcome)
    \/ \E i \in 1 .. Len(polls) : PollJsonSettles(i)
    \/ \E i \in 1 .. Len(polls) : PollTimerFires(i)

SpecConcurrent == Init /\ [][NextConcurrent]_vars

(***************************************************************************)
(* ProtectedRoute.  useAuth() hands it the user and the loading flag of    *)
(* the auth context; it is rendered when mounted and again whenever the    *)
(* context value changes.                                                  *)
(***************************************************************************)
\* a signed-in user
SignedIn == [t |-> "user", id |-> "user-1"]
\* what useAuth().user may be
Users == {Null, Undefined, SignedIn}

\* what ProtectedRoute returns
LoadingPlaceholder == [element |-> "Loading", text |-> "Loading..."]
NavigateToLogin == [element |-> "Navigate", to |-> "/login", replace |-> TRUE]
Children == [element |-> "children"]

\* ProtectedRoute that looks at the user before it looks at loading
ProtectedRouteUserFirst(u, l) ==
    IF ~Truthy(u) THEN NavigateToLogin
    ELSE IF l THEN LoadingPlaceholder
    ELSE Children

\* const { user, loading } = useAuth(); if (loading) ...; if (!user) ...; children
ProtectedRoute(u, l) ==
    IF l THEN LoadingPlaceholder
    ELSE IF ~Truthy(u) THEN NavigateToLogin
    ELSE Children

\* the auth context has any value when the route is mounted
InitRoute ==
    /\ ServiceInit /\ NoPolls /\ NoForm /\ NoChat /\ NoSettings
    /\ user \in Users
    /\ loading \in BOOLEAN
    /\ rendered = <<>>

\* the first render
Mount ==
    /\ rendered = <<>>
    /\ rendered' = <<ProtectedRoute(user, loading)>>
    /\ UNCHANGED <<user, loading, serviceVars, polls, formVars, chatVars, settingsVars>>

\* the auth context changes to user u and loading l: the route renders again
AuthChanges(u, l) ==
    /\ rendered # <<>>
    /\ Len(rendered) < MaxRenders
    /\ <<u, l>> # <<user, loading>>
    /\ user' = u
    /\ loading' = l
    /\ rendered' = Append(rendered, ProtectedRoute(u, l))
    /\ UNCHANGED <<serviceVars, polls, formVars, chatVars, settingsVars>>

NextRoute ==
    \/ Mount
    \/ \E u \in Users, l \in BOOLEAN : AuthChanges(u, l)

SpecRoute == InitRoute /\ [][NextRoute]_vars

(***************************************************************************)
(* The form Dashboard on top of the service.  Its submit and reset buttons *)
(* are disabled while status is 'processing'.                              *)
(***************************************************************************)
FallbackMessage == "An error occurred"

\* the user changes the fields of the form
EditForm(data) ==
    /\ fields # data
    /\ fields' = data
    /\ UNCHANGED <<formStatus, formResult, errorMessage, submitting>>
    /\ UNCHANGED <<serviceVars, polls, routeVars, chatVars, settingsVars>>

\* onSubmit up to await executeWorkflow(workflowData)
onSubmit ==
    /\ formStatus # "processing"
    /\ formStatus' = "processing"
    /\ errorMessage' = Str("")
    /\ formResult' = Null
    /\ submitting' = TRUE
    /\ executeWorkflow(fields, Undefined)
    /\ UNCHANGED <<fields, polls, routeVars, chatVars, settingsVars>>

\* onSubmitResumes with `if (response.data)` in place of `if (response.success)`
onSubmitResumesOnData ==
    /\ submitting
    /\ pc = "returned"
    /\ IF ret.success /\ Truthy(ret.data)
       THEN /\ formStatus' = "success"
            /\ formResult' = ret.data
            /\ UNCHANGED errorMessage
       ELSE /\ formStatus' = "error"
            /\ errorMessage' = IF ret.success THEN Str(FallbackMessage)
                                ELSE Or(ret.error, Str(FallbackMessage))
            /\ UNCHANGED formResult
    /\ submitting' = FALSE
    /\ UNCHANGED <<fields, serviceVars, polls, routeVars, chatVars, settingsVars>>

\* onSubmit from the envelope executeWorkflow resolved with to its end
onSubmitResumes ==
    /\ submitting
    /\ pc = "returned"
    /\ IF ret.success
       THEN /\ formStatus' = "success"
            /\ formResult' = ret.data
            /\ UNCHANGED errorMessage
       ELSE /\ formStatus' = "error"
            /\ errorMessage' = Or(ret.error, Str(FallbackMessage))
            /\ UNCHANGED formResult
    /\ submitting' = FALSE
    /\ UNCHANGED <<fields, serviceVars, polls, routeVars, chatVars, settingsVars>>

\* handleReset behind a button that is not disabled while a submit is running
handleResetAnytime ==
    /\ fields' = FormDefaults
    /\ formStatus' = "idle"
    /\ formResult' = Null
    /\ errorMessage' = Str("")
    /\ UNCHANGED <<submitting, serviceVars, polls, routeVars, chatVars, settingsVars>>

\* handleReset; the reset button is disabled while status is 'processing'
handleReset ==
    /\ formStatus # "processing"
    /\ fields' = FormDefaults
    /\ formStatus' = "idle"
    /\ formResult' = Null
    /\ errorMessage' = Str("")
    /\ UNCHANGED <<submitting, serviceVars, polls, routeVars, chatVars, settingsVars>>

\* what the Dashboard renders below the form
ProcessingCard == [element |-> "Loading", title |-> "Processing your request...", body |-> Null]
SuccessAlert(res) ==
    [element |-> "Alert", title |-> "Workflow Completed Successfully", body |-> res]
ErrorAlert(message) == [element |-> "Alert destructive", title |-> "Error", body |-> message]
TextNode(n) == [element |-> "text", title |-> "", body |-> Num(n)]

\* {status === 'success' && result && (<Alert>...)}: a falsy result is what the
\* expression evaluates to, and React renders a number, 0 included, as text and
\* null, false and '' as nothing
SuccessSlot(st, res) ==
    IF st # "success" THEN {}
    ELSE IF Truthy(res) THEN {SuccessAlert(res)}
    ELSE IF res.t = "number" THEN {TextNode(res.n)}
    ELSE {}

DashboardPanels(st, res, message) ==
    (IF st = "processing" THEN {ProcessingCard} ELSE {})
    \cup SuccessSlot(st, res)
    \cup (IF st = "error" THEN {ErrorAlert(message)} ELSE {})

NextForm ==
    \/ \E data \in FormValues : EditForm(data)
    \/ onSubmit
    \/ /\ \E outcome \in FetchOutcomes : FetchSettles(outcome)
       /\ UNCHANGED <<polls, routeVars, formVars, chatVars, settingsVars>>
    \/ JsonSettles /\ UNCHANGED <<polls, routeVars, formVars, chatVars, settingsVars>>
    \/ onSubmitResumes
    \/ handleReset

SpecForm == Init /\ [][NextForm]_vars

(***************************************************************************)
(* The chat Dashboard on top of the service.                               *)
(***************************************************************************)
SAMPLE_QUESTIONS ==
    <<"Find the top 20 selling products in electronics",
      "Find products with high sales but fewer than 5 sellers in the Beauty category",
      "What are the trending products in Home & Kitchen?",
      "Show me profitable products with low competition in Sports">>

\* what a user types into the input box
TypedInputs == {"", "   ", " top sellers "}

\* String.prototype.trim on the typed inputs
Trim(text) ==
    CASE text = "   " -> ""
      [] text = " top sellers " -> "top sellers"
      [] OTHER -> text

\* what the webhook answers the chat with
ChatOutcomes ==
    {Throw(Error("Failed to fetch")), Response(500, BodyHtml),
     Response(200, BodyCompleted), Response(200, BodyNull)}

\* v?.k
OptionalChain(v, k) ==
    IF v.t = "object" /\ k \in DOMAIN v.f THEN v.f[k] ELSE Undefined

RECURSIVE Pad(_)
Pad(n) == IF n = 0 THEN "" ELSE "  " \o Pad(n - 1)

\* JSON.stringify(v, null, 2) on parsed JSON
RECURSIVE JSONPretty(_, _)
RECURSIVE JSONPrettyMembers(_, _, _, _)
JSONPrettyMembers(f, i, first, depth) ==
    IF i > Len(KeyOrder) THEN ""
    ELSE LET k == KeyOrder[i]
         IN  IF f[k].t = "undefined" THEN JSONPrettyMembers(f, i + 1, first, depth)
             ELSE (IF first THEN "" ELSE ",\n") \o Pad(depth) \o ToString(k) \o ": "
                  \o JSONPretty(f[k], depth) \o JSONPrettyMembers(f, i + 1, FALSE, depth)
JSONPretty(v, depth) ==
    CASE v.t = "null" -> "null"
      [] v.t = "boolean" -> IF v.b THEN "true" ELSE "false"
      [] v.t = "number" -> ToString(v.n)
      [] v.t = "string" -> ToString(v.s)
      [] OTHER -> LET members == JSONPrettyMembers(v.f, 1, TRUE, depth + 1)
                  IN  IF members = "" THEN "{}"
                      ELSE "{\n" \o members \o "\n" \o Pad(depth) \o "}"

ApologyPrefix == "I apologize, but I encountered an error: "
UnexpectedApology == "I apologize, but I encountered an unexpected error. Please try again."

\* the content of the assistant message for the envelope response
ReplyContent(response) ==
    IF response.success
    THEN Or(Or(OptionalChain(response.data, "output"),
               OptionalChain(response.data, "message")),
            Str(JSONPretty(response.data, 0)))
    ELSE Str(ApologyPrefix \o Or(response.error, Str("Unknown error")).s)

UserMessage(content) ==
    [id |-> ToString(now), role |-> "user", content |-> Str(content), timestamp |-> now]
AssistantMessage(content) ==
    [id |-> ToString(now + 1), role |-> "assistant", content |-> content, timestamp |-> now]

\* the payload of the chat: the message (its timestamp, an ISO string of the
\* clock reading, has no key among Keys and is left out)
ChatPayload(m) == Obj(Undefined, Undefined, Undefined, m.content)

\* the parts of the application the chat leaves alone
ChatElsewhere == UNCHANGED <<polls, routeVars, formVars, settingsVars>>

\* the user types; the input box is disabled while isLoading
TypeInput(text) ==
    /\ ~isLoading
    /\ text # input
    /\ input' = text
    /\ UNCHANGED <<messages, isLoading, showSamples, replying, now, serviceVars>>
    /\ ChatElsewhere

\* the Show/Hide Examples button
ToggleSamples ==
    /\ showSamples' = ~showSamples
    /\ UNCHANGED <<messages, input, isLoading, replying, now, serviceVars>>
    /\ ChatElsewhere

\* the clock advances by a millisecond
Tick ==
    /\ now < ClockStart + MaxTicks
    /\ now' = now + 1
    /\ UNCHANGED <<messages, input, isLoading, showSamples, replying, serviceVars>>
    /\ ChatElsewhere

\* handleSampleClick that does not look at isLoading
SampleIgnoredNever(busy) == FALSE

\* if (isLoading) return
SampleIgnored(busy) == busy

\* if (!input.trim() || isLoading) return
SubmitIgnored(text, busy) == Trim(text) = "" \/ busy

\* a handler from its user message up to await executeWorkflow(...)
Ask(content) ==
    LET userMessage == UserMessage(content)
    IN  /\ showSamples' = FALSE
        /\ input' = ""
        /\ messages' = Append(messages, userMessage)
        /\ isLoading' = TRUE
        /\ replying' = TRUE
        /\ executeWorkflow(ChatPayload(userMessage), Undefined)
        /\ UNCHANGED now
        /\ ChatElsewhere

\* handleSubmit up to await executeWorkflow(...), or to its early return
handleSubmit ==
    IF SubmitIgnored(input, isLoading)
    THEN UNCHANGED vars
    ELSE Ask(Trim(input))

\* handleSampleClick up to await executeWorkflow(...), or to its early return;
\* the sample buttons are there while showSamples
handleSampleClick(question) ==
    /\ showSamples
    /\ IF SampleIgnored(isLoading)
       THEN UNCHANGED vars
       ELSE Ask(question)

\* a handler without its finally block: the reply, and isLoading stays
ChatRepliesNoFinally ==
    /\ replying
    /\ pc \in {"returned", "raised"}
    /\ messages' = Append(messages,
                          AssistantMessage(IF pc = "raised" THEN Str(UnexpectedApology)
                                           ELSE ReplyContent(ret)))
    /\ replying' = FALSE
    /\ UNCHANGED <<input, isLoading, showSamples, now, serviceVars>>
    /\ ChatElsewhere

\* a handler from the settling of executeWorkflow to its end: the reply, or in
\* the catch block the apology, and in the finally block setIsLoading(false)
ChatReplies ==
    /\ replying
    /\ pc \in {"returned", "raised"}
    /\ messages' = Append(messages,
                          AssistantMessage(IF pc = "raised" THEN Str(UnexpectedApology)
                                           ELSE ReplyContent(ret)))
    /\ isLoading' = FALSE
    /\ replying' = FALSE
    /\ UNCHANGED <<input, showSamples, now, serviceVars>>
    /\ ChatElsewhere

NextChat ==
    \/ \E text \in TypedInputs : TypeInput(text)
    \/ ToggleSamples
    \/ Tick
    \/ handleSubmit
    \/ \E i \in 1 .. MaxSamples : handleSampleClick(SAMPLE_QUESTIONS[i])
    \/ /\ \E outcome \in ChatOutcomes : FetchSettles(outcome)
       /\ UNCHANGED <<polls, routeVars, formVars, chatVars, settingsVars>>
    \/ JsonSettles /\ UNCHANGED <<polls, routeVars, formVars, chatVars, settingsVars>>
    \/ ChatReplies

SpecChat == Init /\ [][NextChat]_vars

\* the same chat; every fetch and body read settles and the suspended handler runs on
FairChat ==
    /\ WF_vars(/\ \E outcome \in ChatOutcomes : FetchSettles(outcome)
               /\ UNCHANGED <<polls, routeVars, formVars, chatVars, settingsVars>>)
    /\ WF_vars(JsonSettles /\ UNCHANGED <<polls, routeVars, formVars, chatVars, settingsVars>>)
    /\ WF_vars(ChatReplies)

\* the chat at one reading of the clock: whether a reply comes does not depend
\* on the time it comes at
NextTalk ==
    \/ \E text \in TypedInputs : TypeInput(text)
    \/ ToggleSamples
    \/ handleSubmit
    \/ \E i \in 1 .. MaxSamples : handleSampleClick(SAMPLE_QUESTIONS[i])
    \/ /\ \E outcome \in ChatOutcomes : FetchSettles(outcome)
       /\ UNCHANGED <<polls, routeVars, formVars, chatVars, settingsVars>>
    \/ JsonSettles /\ UNCHANGED <<polls, routeVars, formVars, chatVars, settingsVars>>
    \/ ChatReplies

SpecChatFair == Init /\ [][NextTalk]_vars /\ FairChat

(***************************************************************************)
(* The settings page on top of the user_api_keys table.  A request is sent, *)
(* answered by the server, which reads or changes the table at that moment, *)
(* and its response arrives at the page; requests overtake one another.    *)
(***************************************************************************)
SettingsElsewhere == UNCHANGED <<serviceVars, polls, loading, rendered, formVars, chatVars>>

\* what the user types into the two fields of the add form
KeyNames == {"", "OPENAI_API_KEY"}
KeyValues == {"", "sk-123"}

\* a row of user_api_keys; the table is kept newest first, the order of the select
Row(id, owner, name, value) ==
    [id |-> id, user_id |-> owner, key_name |-> name, encrypted_key |-> value]
NoRow == Row(0, "", "", "")
\* a key the user added in an earlier visit
EarlierKey == Row(100, SignedIn.id, "KEEPA_API_KEY", "kp-9")
InitialStores == {<<>>, <<EarlierKey>>}

\* setMessage values
Notice(type, text) == [type |-> type, text |-> text]
LoadFailed ==
    Notice("error", "Failed to load API keys. Make sure the user_api_keys table exists in Supabase.")
AddSucceeded == Notice("success", "API key added successfully")
AddFailed == Notice("error", "Failed to add API key")
DeleteSucceeded == Notice("success", "API key deleted successfully")
DeleteFailed == Notice("error", "Failed to delete API key")

\* a request on its way: sent, then answered by the server with data or an error
Request(n, kind, row, id) ==
    [n |-> n, kind |-> kind, row |-> row, id |-> id,
     phase |-> "sent", data |-> <<>>, error |-> FALSE]

\* the requests made so far, and the number of the next one
Issued == settled + Cardinality(inflight)
NextRequest == Issued + 1

\* room for a command and the reload after it, and for the reloads of the
\* commands under way
Commands == {r \in inflight : r.kind # "select"}
CanRequest == Issued + Cardinality(Commands) + 2 <= MaxRequests

\* loadApiKeys up to its await: nothing without a user, else the select
loadApiKeys(reqs, n) ==
    IF ~Truthy(user) THEN reqs
    ELSE reqs \cup {Request(n, "select", NoRow, 0)}

\* the page is mounted for any auth user and any earlier table; its effect has
\* called loadApiKeys
InitSettings ==
    /\ ServiceInit /\ NoPolls /\ NoForm /\ NoChat
    /\ loading = FALSE /\ rendered = <<>>
    /\ user \in {Null, SignedIn}
    /\ store \in InitialStores
    /\ apiKeys = <<>>
    /\ keysLoading = TRUE
    /\ saving = FALSE
    /\ notice = Null
    /\ keyName = ""
    /\ keyValue = ""
    /\ settled = 0
    /\ inflight = IF ~Truthy(user) THEN {} ELSE {Request(1, "select", NoRow, 0)}

\* the user types into the add form
TypeKey(name, value) ==
    /\ <<name, value>> # <<keyName, keyValue>>
    /\ keyName' = name
    /\ keyValue' = value
    /\ UNCHANGED <<user, apiKeys, keysLoading, saving, notice, store, inflight, settled>>
    /\ SettingsElsewhere

\* if (!user || !keyName || !keyValue) return
AddIgnored(u, name, value) == ~Truthy(u) \/ name = "" \/ value = ""

\* handleAddKey up to the await of the insert; the button is disabled while saving
handleAddKey ==
    /\ ~saving
    /\ IF AddIgnored(user, keyName, keyValue)
       THEN UNCHANGED vars
       ELSE /\ CanRequest
            /\ saving' = TRUE
            /\ notice' = Null
            /\ inflight' = inflight \cup
                   {Request(NextRequest, "insert",
                            Row(NextRequest, user.id, keyName, keyValue), 0)}
            /\ UNCHANGED <<user, apiKeys, keysLoading, keyName, keyValue, store, settled>>
            /\ SettingsElsewhere

\* handleDeleteKey up to the await of the delete, for a key of the displayed list
handleDeleteKey(id, confirmed) ==
    /\ ~keysLoading
    /\ \E i \in 1 .. Len(apiKeys) : apiKeys[i].id = id
    /\ IF ~confirmed
       THEN UNCHANGED vars
       ELSE /\ CanRequest
            /\ inflight' = inflight \cup {Request(NextRequest, "delete", NoRow, id)}
            /\ UNCHANGED <<user, apiKeys, keysLoading, saving, notice, keyName, keyValue,
                           store, settled>>
            /\ SettingsElsewhere

\* the rows of the table without the one of this id
RECURSIVE Without(_, _)
Without(rows, id) ==
    IF rows = <<>> THEN <<>>
    ELSE IF Head(rows).id = id THEN Without(Tail(rows), id)
    ELSE <<Head(rows)>> \o Without(Tail(rows), id)

\* the rows of this owner, in the order of the table
RECURSIVE OwnedBy(_, _)
OwnedBy(rows, owner) ==
    IF rows = <<>> THEN <<>>
    ELSE IF Head(rows).user_id = owner THEN <<Head(rows)>> \o OwnedBy(Tail(rows), owner)
    ELSE OwnedBy(Tail(rows), owner)

\* Supabase answers a request, with an error or by doing what it asks
ServerAnswers(r, fails) ==
    /\ r \in inflight
    /\ r.phase = "sent"
    /\ IF fails
       THEN /\ inflight' = (inflight \ {r}) \cup {[r EXCEPT !.phase = "answered", !.error = TRUE]}
            /\ UNCHANGED store
       ELSE /\ store' = CASE r.kind = "insert" -> <<r.row>> \o store
                           [] r.kind = "delete" -> Without(store, r.id)
                           [] OTHER -> store
            /\ inflight' = (inflight \ {r}) \cup
                   {[r EXCEPT !.phase = "answered",
                              !.data = IF r.kind = "select" THEN OwnedBy(store, user.id)
                                       ELSE <<>>]}
    /\ UNCHANGED <<user, apiKeys, keysLoading, saving, notice, keyName, keyValue, settled>>
    /\ SettingsElsewhere

\* loadApiKeys from its await to its end
LoadResumes(r) ==
    /\ r \in inflight
    /\ r.kind = "select"
    /\ r.phase = "answered"
    /\ IF r.error
       THEN notice' = LoadFailed /\ UNCHANGED apiKeys
       ELSE apiKeys' = r.data /\ UNCHANGED notice
    /\ keysLoading' = FALSE
    /\ inflight' = inflight \ {r}
    /\ settled' = settled + 1
    /\ UNCHANGED <<user, saving, keyName, keyValue, store>>
    /\ SettingsElsewhere

\* handleAddKey that clears the fields and reloads in its finally block
AddResumesClearsAlways(r) ==
    /\ r \in inflight
    /\ r.kind = "insert"
    /\ r.phase = "answered"
    /\ settled' = settled + 1
    /\ notice' = IF r.error THEN AddFailed ELSE AddSucceeded
    /\ keyName' = ""
    /\ keyValue' = ""
    /\ inflight' = loadApiKeys(inflight \ {r}, NextRequest)
    /\ saving' = FALSE
    /\ UNCHANGED <<user, apiKeys, keysLoading, store>>
    /\ SettingsElsewhere

\* handleAddKey from the await of the insert to its end
AddResumes(r) ==
    /\ r \in inflight
    /\ r.kind = "insert"
    /\ r.phase = "answered"
    /\ settled' = settled + 1
    /\ IF r.error
       THEN /\ notice' = AddFailed
            /\ inflight' = inflight \ {r}
            /\ UNCHANGED <<keyName, keyValue>>
       ELSE /\ notice' = AddSucceeded
            /\ keyName' = ""
            /\ keyValue' = ""
            /\ inflight' = loadApiKeys(inflight \ {r}, NextRequest)
    /\ saving' = FALSE
    /\ UNCHANGED <<user, apiKeys, keysLoading, store>>
    /\ SettingsElsewhere

\* handleDeleteKey from the await of the delete to its end
DeleteResumes(r) ==
    /\ r \in inflight
    /\ r.kind = "delete"
    /\ r.phase = "answered"
    /\ settled' = settled + 1
    /\ IF r.error
       THEN /\ notice' = DeleteFailed
            /\ inflight' = inflight \ {r}
       ELSE /\ notice' = DeleteSucceeded
            /\ inflight' = loadApiKeys(inflight \ {r}, NextRequest)
    /\ UNCHANGED <<user, apiKeys, keysLoading, saving, keyName, keyValue, store>>
    /\ SettingsElsewhere

NextSettings ==
    \/ \E name \in KeyNames, value \in KeyValues : TypeKey(name, value)
    \/ handleAddKey
    \/ \E i \in 1 .. Len(apiKeys), confirmed \in BOOLEAN :
           handleDeleteKey(apiKeys[i].id, confirmed)
    \/ \E r \in inflight, fails \in BOOLEAN : ServerAnswers(r, fails)
    \/ \E r \in inflight : LoadResumes(r)
    \/ \E r \in inflight : AddResumes(r)
    \/ \E r \in inflight : DeleteResumes(r)

SpecSettings == InitSettings /\ [][NextSettings]_vars

\* one caller that polls once, leaving out the optional arguments or giving them,
\* against a status endpoint that answers with PollOutcomes
NextPoll ==
    \/ /\ invocations = 0
       /\ \E jobId \in JobIds, statusUrl \in StatusUrls, interval \in IntervalArgs,
             maxAttempts \in BudgetArgs :
            pollWorkflowStatus(jobId, statusUrl, interval, maxAttempts)
       /\ UNCHANGED <<polls, routeVars, formVars, chatVars, settingsVars>>
    \/ /\ \E outcome \in PollOutcomes : FetchSettles(outcome)
       /\ UNCHANGED <<polls, routeVars, formVars, chatVars, settingsVars>>
    \/ JsonSettles /\ UNCHANGED <<polls, routeVars, formVars, chatVars, settingsVars>>
    \/ TimerFires /\ UNCHANGED <<polls, routeVars, formVars, chatVars, settingsVars>>

SpecPoll == Init /\ [][NextPoll]_vars

\* the same caller and endpoint; every fetch settles and every timer fires
FairPoll ==
    /\ WF_vars(/\ \E outcome \in PollOutcomes : FetchSettles(outcome)
               /\ UNCHANGED <<polls, routeVars, formVars, chatVars, settingsVars>>)
    /\ WF_vars(JsonSettles /\ UNCHANGED <<polls, routeVars, formVars, chatVars, settingsVars>>)
    /\ WF_vars(TimerFires /\ UNCHANGED <<polls, routeVars, formVars, chatVars, settingsVars>>)

SpecPollFair == SpecPoll /\ FairPoll

(***************************************************************************)
(* Vocabulary of the properties, in terms of what the caller passed and    *)
(* what the network answered.                                              *)
(***************************************************************************)
IsInvoker == op \in {"executeWorkflow", "executeWorkflowWithFiles"}
IsPoll == op = "pollWorkflowStatus"

\* no endpoint: the argument and the configured default are both unset or empty
Absent(url) == url = Undefined \/ url = Str("")
NoEndpoint == IsInvoker /\ Absent(args.webhookUrl) /\ Absent(N8N_WEBHOOK_URL)
HasEndpoint == IsInvoker /\ ~NoEndpoint

\* the payload of executeWorkflow cannot be serialized
Unserializable == op = "executeWorkflow" /\ JSONStringify(args.data).kind = "throw"

Answered == outcomes # <<>>
LastOutcome == Last(outcomes)
Rejected == Answered /\ LastOutcome.kind = "throw"
Responded == Answered /\ LastOutcome.kind = "return"
Is2xx(status) == status \in 200 .. 299
Non2xx == Responded /\ ~Is2xx(LastOutcome.value.status)
Got2xx == Responded /\ Is2xx(LastOutcome.value.status)
\* the body of the last response, parsed
LastParsed == JSONParse(LastOutcome.value.body)
Unparsable == Got2xx /\ LastParsed.kind = "throw"
Parsed == Got2xx /\ LastParsed.kind = "return"
LastBody == LastParsed.value
\* response.json() of the last response has settled
BodyRead == pc # "json"

\* the field k of a parsed body; undefined when the body is no object or lacks it
Field(v, k) == IF v.t = "object" THEN v.f[k] ELSE Undefined

(***************************************************************************)
(* C1.  executeWorkflow and executeWorkflowWithFiles, called with no       *)
(* override endpoint and no configured default: the call returns           *)
(* {success: false, error} where error is the message about the missing    *)
(* configuration, and the invocation makes no network call.                *)
(***************************************************************************)
C1_NoEndpointIsConfigError ==
    NoEndpoint =>
        /\ pc = "returned"
        /\ ret = [success |-> FALSE, error |-> Str(ConfigErrorMessage)]
        /\ requests = <<>>
        /\ outcomes = <<>>

C1_Witness ==
    /\ op = "executeWorkflowWithFiles"
    /\ args.webhookUrl = Str("")
    /\ N8N_WEBHOOK_URL = Undefined
    /\ pc = "returned"
    /\ ret.success = FALSE
    /\ totalCalls = 0

(***************************************************************************)
(* C2.  The invoker, for every payload and resolvable endpoint: when the   *)
(* POST gets a 2xx response whose body parses as the JSON value B, it      *)
(* returns exactly {success: true, data: B}, after that one POST.          *)
(***************************************************************************)
C2_OkJsonIsSuccessWithBody ==
    (IsInvoker /\ Parsed /\ BodyRead) =>
        /\ pc = "returned"
        /\ ret = [success |-> TRUE, data |-> LastBody]
        /\ Len(requests) = 1

C2_Witness ==
    /\ op = "executeWorkflow"
    /\ pc = "returned"
    /\ outcomes = <<Response(201, BodyCompleted)>>
    /\ ret = [success |-> TRUE,
              data |-> Obj(Str("completed"), Undefined, Num(42), Undefined)]

(***************************************************************************)
(* C3.  The invoker, for every endpoint: when the POST gets a non-2xx      *)
(* response, it returns {success: false, error} where error is "HTTP       *)
(* error! status: " followed by the status code, and the invocation has    *)
(* issued that one request only.                                           *)
(***************************************************************************)
C3_Non2xxIsErrorWithStatus ==
    (IsInvoker /\ Non2xx) =>
        /\ pc = "returned"
        /\ ret = [success |-> FALSE,
                  error |-> Str("HTTP error! status: " \o ToString(LastOutcome.value.status))]
        /\ Len(requests) = 1
        /\ Len(outcomes) = 1

C3_Witness ==
    /\ op = "executeWorkflow"
    /\ pc = "returned"
    /\ outcomes = <<Response(500, BodyCompleted)>>
    /\ ret = [success |-> FALSE, error |-> Str("HTTP error! status: 500")]
    /\ Len(requests) = 1

(***************************************************************************)
(* C4.  The three functions never raise to their caller.  Whenever the     *)
(* configuration is missing, the payload fails to serialize, the fetch     *)
(* rejects (with an Error or with a value that is no Error), the status is *)
(* not 2xx or the body fails to parse, the function has returned an        *)
(* envelope with success = false and an error field.                       *)
(***************************************************************************)
C4_Failure ==
    \/ NoEndpoint
    \/ HasEndpoint /\ Unserializable
    \/ Rejected
    \/ Non2xx
    \/ Unparsable /\ BodyRead

C4_NeverRaises ==
    /\ pc # "raised"
    /\ C4_Failure =>
         /\ pc = "returned"
         /\ ret.success = FALSE
         /\ "error" \in DOMAIN ret

C4_Witness ==
    /\ IsPoll
    /\ pc = "returned"
    /\ Len(outcomes) = 2
    /\ LastOutcome = Throw(Str("aborted"))
    /\ ret = [success |-> FALSE, error |-> Str("An unknown error occurred")]

(***************************************************************************)
(* C5.  As stated: every invocation of the invoker makes exactly one       *)
(* network call.  The code makes none when no endpoint is resolvable and   *)
(* none when JSON.stringify(data) throws, so the statement is kept for the *)
(* other invocations only.                                                 *)
(***************************************************************************)
C5_ExactlyOneCallAlways == (IsInvoker /\ pc = "returned") => Len(requests) = 1

\* C5, amended.  An invocation of the invoker makes at most one network call:
\* none when no endpoint is resolvable or the payload cannot be serialized, and
\* otherwise exactly one, issued in the call and never repeated after a failure.
\* Nothing is answered from a cache: a second invocation with the arguments of
\* the first makes its own call, two invocations two calls.
C5_OneCallPerInvocation ==
    IsInvoker =>
        /\ Len(requests) = IF NoEndpoint \/ Unserializable THEN 0 ELSE 1
        /\ (repeated /\ invocations = 2) => totalCalls = 2 * Len(requests)

C5_Witness ==
    /\ op = "executeWorkflow"
    /\ repeated
    /\ invocations = 2
    /\ pc = "returned"
    /\ ret.success
    /\ Len(requests) = 1
    /\ totalCalls = 2

(***************************************************************************)
(* C6.  As stated: in every returned envelope success = true implies data  *)
(* is populated (neither undefined nor null) and error is absent, and      *)
(* success = false implies error is a non-empty message and data is        *)
(* absent.                                                                 *)
(***************************************************************************)
Populated(v) == v.t \notin {"undefined", "null"}
NonEmptyMessage(v) == v.t = "string" /\ v.s # ""

FailedStatuses == {Str("failed"), Str("error")}
SucceededStatuses == {Str("completed"), Str("success")}

WorkflowReportedError ==
    /\ Parsed
    /\ \/ Field(LastBody, "error") # Undefined
       \/ Field(LastBody, "status") \in FailedStatuses

C8_CompletedEndsPoll ==
    (IsPoll /\ Parsed /\ BodyRead /\ Field(LastBody, "status") \in SucceededStatuses) =>
        /\ pc = "returned"
        /\ ret = [success |-> TRUE, data |-> LastBody]
        /\ Len(requests) = Len(outcomes)
        /\ timersSet = Len(outcomes) - 1
        /\ timersFired = timersSet

C8_Witness ==
    /\ IsPoll
    /\ pc = "returned"
    /\ Len(outcomes) = 2
    /\ LastOutcome = Response(200, BodySuccess)
    /\ ret.success
    /\ Len(requests) = 2
    /\ timersSet = 1

(***************************************************************************)
(* C9.  As stated: when a 2xx response has status 'failed' or 'error', the *)
(* poll ends at that attempt with success = false and error equal to the   *)
(* error field of the body when the body has one, and the generic message  *)
(* otherwise.                                                              *)
(***************************************************************************)
PollFailed == IsPoll /\ Parsed /\ BodyRead /\ Field(LastBody, "status") \in FailedStatuses

C9_FailedReportsBodyError ==
    PollFailed =>
        /\ pc = "returned"
        /\ ret = [success |-> FALSE,
                  error |-> IF Field(LastBody, "error") # Undefined
                            THEN Field(LastBody, "error")
                            ELSE Str(WorkflowFailedMessage)]

\* C9, amended.  When a 2xx response has status 'failed' or 'error', the poll ends
\* at that attempt, with no GET and no wait after it, with success = false and
\* error equal to the error field of the body when that field is truthy, and the
\* generic message when the body has none or a falsy one (such as '').  A first
\* response {status: 'failed', error: 'bad input'} yields {success: false, error:
\* 'bad input'} after exactly 1 GET.
C9_FailedReportsTruthyBodyError ==
    PollFailed =>
        /\ pc = "returned"
        /\ ret = [success |-> FALSE,
                  error |-> IF Truthy(Field(LastBody, "error"))
                            THEN Field(LastBody, "error")
                            ELSE Str(WorkflowFailedMessage)]
        /\ Len(requests) = Len(outcomes)
        /\ timersSet = Len(outcomes) - 1
        /\ timersFired = timersSet

C9_Witness ==
    /\ IsPoll
    /\ pc = "returned"
    /\ outcomes = <<Response(200, BodyFailedMsg)>>
    /\ ret = [success |-> FALSE, error |-> Str("bad input")]
    /\ Len(requests) = 1
    /\ timersSet = 0

(***************************************************************************)
(* C10.  As stated: every 2xx response whose status is none of completed,  *)
(* success, failed, error (a body without a status field included) is      *)
(* taken as still pending: the poller waits one interval, adds one to the  *)
(* attempt counter and polls again.  So k such bodies and then a           *)
(* 'completed' one, k < maxAttempts, end in success with that body after   *)
(* exactly k+1 GETs and k waits.                                           *)
(***************************************************************************)
NonTerminal(body) == Field(body, "status") \notin (SucceededStatuses \cup FailedStatuses)

\* after the n-th response, n = Len(outcomes): the n-th wait is set; then it has
\* elapsed, attempts = n, and the next GET is out, or the budget is used up and
\* the poll has timed out
TreatedAsPending ==
    /\ timersSet = Len(outcomes)
    /\ attempts = timersFired
    /\ \/ /\ pc = "timer"
          /\ timersFired = Len(outcomes) - 1
          /\ Len(requests) = Len(outcomes)
       \/ /\ pc = "fetch"
          /\ timersFired = Len(outcomes)
          /\ Len(requests) = Len(outcomes) + 1
          /\ attempts < args.maxAttempts
       \/ /\ pc = "returned"
          /\ timersFired = Len(outcomes)
          /\ Len(requests) = Len(outcomes)
          /\ attempts = args.maxAttempts
          /\ ret = TimeoutEnvelope

IsPending(outcome) ==
    /\ outcome.kind = "return"
    /\ Is2xx(outcome.value.status)
    /\ JSONParse(outcome.value.body).kind = "return"
    /\ NonTerminal(JSONParse(outcome.value.body).value)

CompletedAfterPending ==
    (/\ IsPoll /\ Parsed /\ BodyRead
     /\ Field(LastBody, "status") = Str("completed")
     /\ \A i \in 1 .. (Len(outcomes) - 1) : IsPending(outcomes[i])) =>
        /\ pc = "returned"
        /\ ret = [success |-> TRUE, data |-> LastBody]
        /\ Len(requests) = Len(outcomes)
        /\ timersSet = Len(outcomes) - 1
        /\ timersFired = Len(outcomes) - 1
        /\ attempts = Len(outcomes) - 1
        /\ Len(outcomes) - 1 < args.maxAttempts

C10_NonTerminalIsPending ==
    /\ (IsPoll /\ Parsed /\ BodyRead /\ NonTerminal(LastBody)) => TreatedAsPending
    /\ CompletedAfterPending

\* C10, amended.  Every 2xx response whose parsed body is not null and whose
\* status is none of completed, success, failed, error (a body without a status
\* field included) is taken as still pending: the poller waits one interval, adds
\* one to the attempt counter and, while attempts remain, polls again.  A 2xx
\* body that is JSON null is not pending: reading its status throws and the poll
\* ends there with success = false.  So k pending bodies and then a 'completed'
\* one, k < maxAttempts, end in success with that body after exactly k+1 GETs and
\* k waits.
C10_NonNullNonTerminalIsPending ==
    /\ (IsPoll /\ Parsed /\ BodyRead /\ NonTerminal(LastBody) /\ LastBody # Null)
         => TreatedAsPending
    /\ (IsPoll /\ Parsed /\ BodyRead /\ LastBody = Null)
         => /\ pc = "returned"
            /\ ret.success = FALSE
            /\ Len(requests) = Len(outcomes)
            /\ timersSet = Len(outcomes) - 1
    /\ CompletedAfterPending

C10_Witness ==
    /\ IsPoll
    /\ args.interval = 10
    /\ pc = "returned"
    /\ outcomes = <<Response(200, BodyProcessing), Response(200, BodyEmptyObject),
                    Response(200, BodyCompleted)>>
    /\ ret = [success |-> TRUE,
              data |-> Obj(Str("completed"), Undefined, Num(42), Undefined)]
    /\ Len(requests) = 3
    /\ timersFired = 2

(***************************************************************************)
(* C11.  Polling until the attempt budget is used up.                      *)
(***************************************************************************)
\* the attempt budget of the running poll, from what the caller passed: 30 when
\* maxAttempts was left out; a budget below zero allows as many GETs as zero does
Budget ==
    LET m == IF args.passed.maxAttempts = Undefined THEN 30
             ELSE args.passed.maxAttempts.n
    IN  IF m > 0 THEN m ELSE 0

AllOutcomes(P(_)) == \A i \in 1 .. Len(outcomes) : P(outcomes[i])

\* a 2xx response with a JSON body that is not null and has no terminal status
StillPending(outcome) ==
    IsPending(outcome) /\ JSONParse(outcome.value.body).value # Null

EveryGetTargetsJob ==
    \A i \in 1 .. Len(requests) :
        /\ requests[i].method = "GET"
        /\ requests[i].url = args.statusUrl \o "/" \o args.jobId

TimedOut ==
    /\ pc = "returned"
    /\ ret = [success |-> FALSE, error |-> Str("Workflow execution timed out")]

\* C11 as stated.  A poll that has returned after only non-terminal responses
\* has returned the timeout envelope after exactly maxAttempts GETs; no poll
\* issues more than maxAttempts GETs; each GET targets statusUrl/jobId.
C11_NonTerminalTimesOut ==
    IsPoll =>
      /\ (pc = "returned" /\ AllOutcomes(IsPending))
           => TimedOut /\ Len(requests) = args.maxAttempts
      /\ Len(requests) <= args.maxAttempts
      /\ EveryGetTargetsJob

\* C11, amended.  A poll that has returned after only 2xx responses whose JSON
\* body is not null and carries no terminal status has returned
\* {success: false, error: 'Workflow execution timed out'} after exactly
\* maxAttempts GETs, none when maxAttempts is zero or negative; no poll issues
\* more GETs than that, 30 when maxAttempts is left out; each request is a GET
\* of statusUrl + '/' + jobId.  (A 2xx body that is JSON null ends the poll at
\* once with another error, as in C10.)
C11_PendingOnlyTimesOut ==
    IsPoll =>
      /\ (pc = "returned" /\ AllOutcomes(StillPending))
           => TimedOut /\ Len(requests) = Budget /\ Len(outcomes) = Budget
      /\ TimedOut => Len(requests) = Budget /\ AllOutcomes(StillPending)
      /\ Len(requests) <= Budget
      /\ EveryGetTargetsJob

C11_Witness ==
    /\ IsPoll
    /\ args.passed.maxAttempts = Undefined
    /\ TimedOut
    /\ Len(requests) = 30
    /\ timersFired = 30

(***************************************************************************)
(* C12.  A failed attempt ends the poll.                                   *)
(***************************************************************************)
\* the attempt that got the last response has failed: the fetch was rejected,
\* the response was not 2xx, or its body was read and is no JSON
AttemptFailed == Rejected \/ Non2xx \/ (Unparsable /\ BodyRead)

\* C12.  In pollWorkflowStatus a failed attempt, at whatever attempt number,
\* ends the poll at once with success = false: no wait is set after it and no
\* GET follows it, also when attempts remain in the budget.
C12_FailedAttemptEndsPoll ==
    (IsPoll /\ AttemptFailed)
      => /\ pc = "returned"
         /\ ret.success = FALSE
         /\ Len(requests) = Len(outcomes)
         /\ timersSet = Len(outcomes) - 1
         /\ timersFired = timersSet
         /\ attempts = Len(outcomes) - 1

C12_Witness ==
    /\ IsPoll
    /\ args.maxAttempts = 3
    /\ Len(outcomes) = 2
    /\ Non2xx
    /\ pc = "returned"
    /\ ret = [success |-> FALSE, error |-> Str("HTTP error! status: 500")]
    /\ Len(requests) = 2

(***************************************************************************)
(* C13.  The three states of a poll.                                       *)
(***************************************************************************)
\* the state of the poll, read off the promise pollWorkflowStatus returned:
\* not resolved, resolved with success: true, resolved with success: false
PollState ==
    IF ret = NoEnvelope
    THEN IF pc = "raised" THEN "rejected" ELSE "pending"
    ELSE IF ret.success THEN "succeeded" ELSE "failed"

\* what a poll does: its GETs, their responses, its waits, its attempt counter
pollVars == <<requests, outcomes, timersSet, timersFired, attempts>>

\* nothing of the poll is outstanding: every GET is answered, every wait over
Quiescent ==
    /\ pc = "returned"
    /\ Len(requests) = Len(outcomes)
    /\ timersSet = timersFired

\* this step is a call of the service
IsCall == invocations' # invocations

\* C13.  A poll is in one of three states, pending, succeeded, failed.  The
\* call leaves it pending (with a budget of zero or less it is failed, timed
\* out, at once, without a GET).  A step of a pending poll leaves it pending or
\* takes it to succeeded or failed; in succeeded and failed nothing of the poll
\* is outstanding, and no step of the poll follows: no GET, no wait, no change
\* of the attempt counter, no change of the envelope.
C13_ThreeStatesAbsorbing ==
    [][IsPoll' =>
         /\ PollState' \in {"pending", "succeeded", "failed"}
         /\ PollState' \in {"succeeded", "failed"} => Quiescent'
         /\ IsCall => \/ PollState' = "pending" /\ Len(requests') = 1
                      \/ /\ args'.maxAttempts <= 0
                         /\ PollState' = "failed"
                         /\ requests' = <<>>
         /\ (~IsCall /\ PollState \in {"succeeded", "failed"})
              => UNCHANGED <<ret, pc, pollVars>>]_vars

\* a poll that was pending through one wait and is succeeded
C13_Witness ==
    /\ IsPoll
    /\ PollState = "succeeded"
    /\ Quiescent
    /\ Len(outcomes) = 2
    /\ attempts = 1
    /\ invocations = 1

(***************************************************************************)
(* C14.  The request the invoker forms.                                    *)
(***************************************************************************)
\* the headers of a request as the set of their names
HeaderNames(request) == {h[1] : h \in request.headers}

\* the invoker has got as far as calling fetch
Posted == IsInvoker /\ requests # <<>>

\* C14.  An invoker that has an endpoint (and, for a mapping, a payload that
\* can be serialized) makes one POST.  For a mapping its body is the JSON text
\* of the payload and its only header is Content-Type: application/json; for
\* a FormData its body is the FormData object itself and it has no header at
\* all.  In both cases the parsed body of a 2xx JSON response is the data of
\* the envelope returned.
C14_RequestByPayloadKind ==
    /\ (HasEndpoint /\ ~Unserializable) => Len(requests) = 1
    /\ Posted => /\ Len(requests) = 1
                 /\ requests[1].method = "POST"
    /\ (Posted /\ op = "executeWorkflow")
         => /\ requests[1].body = JSONStringify(args.data).value
            /\ requests[1].body.t = "string"
            /\ requests[1].headers = {<<"Content-Type", "application/json">>}
            /\ args.data = Obj(Undefined, Undefined, Undefined, Str("top sellers"))
                 => requests[1].body = Str("{\"message\":\"top sellers\"}")
    /\ (Posted /\ op = "executeWorkflowWithFiles")
         => /\ requests[1].body = args.data
            /\ requests[1].body.t = "FormData"
            /\ "Content-Type" \notin HeaderNames(requests[1])
    /\ (IsInvoker /\ Parsed /\ BodyRead)
         => ret.success /\ ret.data = JSONParse(outcomes[1].value.body).value

\* a FormData POST answered 200 with a JSON body
C14_Witness ==
    /\ op = "executeWorkflowWithFiles"
    /\ pc = "returned"
    /\ requests = <<[method |-> "POST", url |-> OverrideUrl, headers |-> {},
                     body |-> FormData("upload-2")]>>
    /\ outcomes = <<Response(200, BodySuccess)>>
    /\ ret.success
    /\ ret.data.f["status"] = Str("success")

(***************************************************************************)
(* C15.  The suspensions of one poll come one after the other.             *)
(***************************************************************************)
OutstandingGets == Len(requests) - Len(outcomes)
OutstandingReads == IF pc = "json" THEN 1 ELSE 0
OutstandingWaits == timersSet - timersFired

\* C15.  A poll has at most one suspension outstanding, a GET, the reading of
\* a response, or a wait.  GET number k+1 is out only when the responses to
\* the k GETs before it are in and k waits have elapsed.  The wait after a
\* response is set only when that response has been read and found to be
\* pending, and it lasts `interval`.
C15_SuspensionsSequential ==
    IsPoll =>
      /\ OutstandingGets \in {0, 1}
      /\ OutstandingWaits \in {0, 1}
      /\ OutstandingGets + OutstandingReads + OutstandingWaits <= 1
      /\ pc \in {"fetch", "json", "timer"}
           => OutstandingGets + OutstandingReads + OutstandingWaits = 1
      /\ requests # <<>> => /\ Len(requests) <= timersFired + 1
                            /\ Len(outcomes) >= Len(requests) - 1
      /\ pc = "fetch" => Len(requests) = timersFired + 1
      /\ timersSet <= Len(outcomes)
      /\ \A i \in 1 .. timersSet : StillPending(outcomes[i])
      /\ pc = "json" => timersSet = Len(outcomes) - 1
      /\ pc = "timer"
           => PollAfterJson(LastParsed, args.interval)
                = [kind |-> "timer", value |-> args.passed.interval.n]

\* the third GET is out: two responses are in and two waits have elapsed
C15_Witness ==
    /\ IsPoll
    /\ pc = "fetch"
    /\ Len(requests) = 3
    /\ Len(outcomes) = 2
    /\ timersSet = 2
    /\ timersFired = 2
    /\ args.interval = 2000

(***************************************************************************)
(* C19.  The endpoint the invoker posts to.                                *)
(***************************************************************************)
\* the caller has supplied an override endpoint (an empty string supplies none)
OverrideSupplied == IsInvoker /\ ~Absent(args.webhookUrl)

\* C19.  The invoker posts to the caller's override endpoint whenever one is
\* supplied, and to the configured default only when none is.  The default is
\* looked at only in an invocation that has no override: with an override and
\* no default configured the invoker still makes its one call, to the
\* override.
C19_OverrideBeforeDefault ==
    /\ (Posted /\ OverrideSupplied) => requests[1].url = args.webhookUrl.s
    /\ (Posted /\ ~OverrideSupplied)
         => /\ ~Absent(N8N_WEBHOOK_URL)
            /\ requests[1].url = N8N_WEBHOOK_URL.s
    /\ (OverrideSupplied /\ ~Unserializable)
         => /\ Len(requests) = 1
            /\ requests[1].url = args.webhookUrl.s
            /\ pc = "returned" => ret # ConfigError

\* no default is configured, an override is supplied, one call has gone to it
C19_Witness ==
    /\ op = "executeWorkflow"
    /\ N8N_WEBHOOK_URL = Undefined
    /\ args.webhookUrl = Str(OverrideUrl)
    /\ Len(requests) = 1
    /\ requests[1].url = OverrideUrl
    /\ totalCalls = 1
    /\ pc = "fetch"

(***************************************************************************)
(* C17.  A poll ends.                                                      *)
(***************************************************************************)
PollRunning == IsPoll /\ pc # "returned"
PollReturned == IsPoll /\ pc = "returned" /\ ret # NoEnvelope

\* the ways a poll stops: it has seen a terminal status, or its last attempt
\* has failed (a null body included), or it has timed out with its budget used up
StoppedForAReason ==
    \/ Parsed /\ ~NonTerminal(LastBody)
    \/ AttemptFailed
    \/ Parsed /\ LastBody = Null /\ ~ret.success
    \/ TimedOut /\ Len(requests) = Budget

\* C17.  Whatever maxAttempts is (given or left out) and whatever the
\* endpoint answers, a poll whose GETs all settle and whose waits all elapse
\* returns an envelope in the end; and a poll that has returned has stopped on
\* a terminal status, on a failed attempt, or on a used-up budget.
C17_PollEventuallyReturns ==
    /\ PollRunning ~> PollReturned
    /\ [](PollReturned => StoppedForAReason)

\* a poll with the default budget that returned on seeing a terminal status
\* after three pending responses
C17_Witness ==
    /\ PollReturned
    /\ args.passed.maxAttempts = Undefined
    /\ Len(outcomes) = 4
    /\ LastOutcome = Response(200, BodyCompleted)
    /\ ret.success

(***************************************************************************)
(* C16.  Polls run side by side are independent.                           *)
(***************************************************************************)
\* a poll with arguments a run alone against the responses outs, from the
\* response number k on, with att attempts, gets GETs and waits waits so far:
\* the envelope it returns (none while it is still out for a response), the
\* number of its GETs and the number of its waits
RECURSIVE RunAlone(_, _, _, _, _, _)
RunAlone(a, outs, k, att, gets, waits) ==
    LET start == PollLoop(att, a)
    IN  IF start.kind = "return"
        THEN [ret |-> start.value, gets |-> gets, waits |-> waits]
        ELSE IF k > Len(outs)
        THEN [ret |-> NoEnvelope, gets |-> gets + 1, waits |-> waits]
        ELSE LET fetched == AfterFetch(outs[k])
                 read == IF fetched.kind = "return" THEN fetched
                         ELSE PollAfterJson(JSONParse(outs[k].value.body), a.interval)
             IN  IF read.kind = "return"
                 THEN [ret |-> read.value, gets |-> gets + 1, waits |-> waits]
                 ELSE RunAlone(a, outs, k + 1, att + 1, gets + 1, waits + 1)

Observed(p) == [ret |-> p.ret, gets |-> Len(p.requests), waits |-> p.timersSet]

\* C16.  Under every interleaving of the GETs and waits of the polls a caller
\* runs side by side, each poll that has returned, and each poll that is out
\* for a response, has the envelope, the GET count and the wait count of a
\* poll run alone with its arguments on its responses.
C16_PollsIndependent ==
    \A i \in 1 .. Len(polls) :
        polls[i].pc \in {"returned", "fetch"}
          => Observed(polls[i]) = RunAlone(polls[i].args, polls[i].outcomes, 1, 0, 0, 0)

\* the second poll has succeeded after a wait while the first, started before
\* it, is still waiting after its first response
C16_Witness ==
    /\ Len(polls) = 2
    /\ polls[1].pc = "timer"
    /\ Len(polls[1].outcomes) = 1
    /\ polls[2].pc = "returned"
    /\ polls[2].ret.success
    /\ Len(polls[2].requests) = 2
    /\ polls[2].timersFired = 1

(***************************************************************************)
(* C18.  What the protected route shows.                                   *)
(***************************************************************************)
Shown == Last(rendered)
UserPresent == user # Null /\ user # Undefined

\* C18.  The protected route shows its children exactly when the auth state
\* is not loading and a user is present.  Whenever loading is true it shows
\* the loading placeholder, which is neither the children nor a redirect;
\* whenever loading is false and there is no user it is a redirect to /login
\* and not the children.
C18_ChildrenOnlyForUser ==
    rendered # <<>> =>
      /\ Shown.element = "children" <=> (~loading /\ UserPresent)
      /\ loading => /\ Shown.element = "Loading"
                    /\ Shown.element \notin {"children", "Navigate"}
      /\ (~loading /\ ~UserPresent)
           => /\ Shown.element = "Navigate"
              /\ Shown.to = "/login"
              /\ Shown.element # "children"

\* the route showed the placeholder while loading, then redirected when loading
\* ended without a user, then showed the children once a user was there
C18_Witness ==
    /\ Len(rendered) = 3
    /\ rendered[1].element = "Loading"
    /\ rendered[2] = [element |-> "Navigate", to |-> "/login", replace |-> TRUE]
    /\ rendered[3].element = "children"
    /\ ~loading
    /\ user = SignedIn

(***************************************************************************)
(* C20.  The status of the form Dashboard.                                 *)
(***************************************************************************)
\* the error text the Dashboard shows for the envelope env
ShownError(env) == IF Truthy(env.error) THEN env.error ELSE Str("An error occurred")

Cleared == formResult = Null /\ errorMessage = Str("")

\* the Dashboard as the envelope of its last submit left it
FollowsEnvelope ==
    /\ formStatus \in {"idle", "processing", "success", "error"}
    /\ formStatus = "processing" <=> submitting
    /\ formStatus \in {"idle", "processing"} => Cleared
    /\ formStatus = "success"
         => /\ pc = "returned" /\ ret.success
            /\ formResult = ret.data
            /\ errorMessage = Str("")
    /\ formStatus = "error"
         => /\ pc = "returned" /\ ~ret.success
            /\ errorMessage = ShownError(ret)
            /\ errorMessage # Str("")
            /\ formResult = Null

\* the steps that change the status: submit, the return of the invoker, reset
StatusStep ==
    /\ IsCall => formStatus' = "processing" /\ Cleared'
    /\ (formStatus = "processing" /\ formStatus' # "processing")
         => /\ pc = "returned"
            /\ UNCHANGED ret
            /\ formStatus' = IF ret.success THEN "success" ELSE "error"
    /\ (formStatus' = "idle" /\ formStatus # "idle") => Cleared' /\ ~IsCall
    /\ formStatus' # formStatus
         => \/ formStatus' = "processing" /\ IsCall
            \/ formStatus = "processing" /\ formStatus' \in {"success", "error"}
            \/ formStatus' = "idle"

\* C20.  Submit sets status to 'processing' and clears result and
\* errorMessage; when the invoker has returned, status becomes 'success' with
\* result = the envelope's data exactly when the envelope has success = true,
\* and otherwise 'error' with errorMessage = the envelope's error, or 'An error
\* occurred' when that is empty; reset sets status to 'idle' and clears both;
\* nothing else changes the status.  In every state 'processing' goes with a
\* null result and an empty errorMessage, and 'error' with a non-empty
\* errorMessage.
C20_StatusFollowsEnvelope == []FollowsEnvelope /\ [][StatusStep]_vars

\* the second submit has ended in 'error' with the invoker's message for a 404
C20_Witness ==
    /\ formStatus = "error"
    /\ errorMessage = Str("HTTP error! status: 404")
    /\ formResult = Null
    /\ ~submitting
    /\ invocations = 2
    /\ fields # FormDefaults

(***************************************************************************)
(* C21.  Waits, GETs and the attempt counter of a poll.                    *)
(***************************************************************************)
\* the responses of the running poll that have been read
ReadOutcomes == IF pc = "json" THEN Len(outcomes) - 1 ELSE Len(outcomes)

\* how many of the responses read so far satisfy P
CountRead(P(_)) == Cardinality({i \in 1 .. ReadOutcomes : P(outcomes[i])})

\* C21 as stated.  A poll that has timed out has waited as often as it has
\* issued a GET; the number of waits of a poll is the number of its 2xx
\* responses without a terminal status; the attempt counter equals that
\* number once the poll has returned and is always within 0..maxAttempts;
\* with maxAttempts <= 0 the poll has timed out after no GET and no wait.
C21_WaitsEqualNonTerminal ==
    IsPoll =>
      /\ TimedOut => timersSet = Len(requests) /\ timersFired = Len(requests)
      /\ timersSet = CountRead(IsPending)
      /\ pc = "returned" => attempts = CountRead(IsPending)
      /\ attempts \in 0 .. args.maxAttempts
      /\ args.maxAttempts <= 0 => TimedOut /\ requests = <<>> /\ timersSet = 0

\* C21, amended.  A poll that has timed out has waited as often as it has
\* issued a GET: the wait after the last GET of the budget elapses before the
\* timeout envelope is returned.  The number of waits of a poll is the number
\* of its 2xx responses whose JSON body is not null and has no terminal status
\* (a null body ends the poll without a wait); the attempt counter is the
\* number of waits that have elapsed, equals the number of those responses
\* once the poll has returned, and is always within 0..max(maxAttempts, 0);
\* with maxAttempts <= 0 the poll has timed out after no GET and no wait.
C21_WaitsEqualPending ==
    IsPoll =>
      /\ TimedOut => /\ timersSet = Len(requests)
                     /\ timersFired = Len(requests)
                     /\ Len(requests) = Budget
      /\ timersSet = CountRead(StillPending)
      /\ attempts = timersFired
      /\ pc = "returned" => attempts = CountRead(StillPending)
      /\ attempts \in 0 .. Budget
      /\ args.maxAttempts <= 0 => TimedOut /\ requests = <<>> /\ timersSet = 0

\* a poll with a budget of two has timed out after two GETs and two waits
C21_Witness ==
    /\ IsPoll
    /\ args.maxAttempts = 2
    /\ TimedOut
    /\ Len(requests) = 2
    /\ timersSet = 2
    /\ timersFired = 2
    /\ attempts = 2
    /\ outcomes = <<Response(200, BodyEmptyObject), Response(200, BodyProcessing)>>

(***************************************************************************)
(* C22.  One request of the form Dashboard at a time.                      *)
(***************************************************************************)
\* the request of a submit is out, or its response is being read
RequestInFlight == pc \in {"fetch", "json"}

\* a submit is under way: onSubmit has not run to its end
SubmitRunning == submitting \/ RequestInFlight

\* the response of the invoker is applied in this step
ResponseApplied == submitting /\ ~submitting'

\* C22.  The form Dashboard has at most one request in flight.  While a submit
\* is under way the status is 'processing'; a submit starts only when none is
\* under way; the response of the invoker is applied while the status is
\* still 'processing', in a step that is the end of the submit that made the
\* request; and no step takes the status from 'processing' to 'idle'.
C22_OneSubmitAtATime ==
    /\ [](/\ Len(requests) - Len(outcomes) \in {0, 1}
          /\ SubmitRunning => formStatus = "processing"
          /\ RequestInFlight => submitting)
    /\ [][/\ IsCall => ~SubmitRunning /\ formStatus # "processing"
          /\ ResponseApplied => /\ formStatus = "processing"
                                /\ pc = "returned"
                                /\ UNCHANGED <<invocations, ret>>
          /\ formStatus = "processing" => formStatus' # "idle"]_vars

\* the request of the second submit is out, after the first submit has ended
C22_Witness ==
    /\ invocations = 2
    /\ pc = "fetch"
    /\ submitting
    /\ formStatus = "processing"
    /\ totalCalls = 2
    /\ Len(requests) = 1
    /\ outcomes = <<>>

(***************************************************************************)
(* C23.  The outcome panel of the form Dashboard.                          *)
(***************************************************************************)
Displayed == DashboardPanels(formStatus, formResult, errorMessage)
SubmitCompleted == formStatus \in {"success", "error"}

\* C23.  When a submit of the form Dashboard has completed, exactly one
\* outcome panel is displayed: the success alert with the result when the
\* envelope had success = true, and the error alert otherwise, whatever data
\* the workflow returned, null, false, 0 and the empty string included.
C23_ExactlyOnePanel ==
    SubmitCompleted =>
      /\ Cardinality(Displayed) = 1
      /\ ret.success => Displayed = {SuccessAlert(ret.data)}
      /\ ~ret.success => Displayed = {ErrorAlert(errorMessage)}

\* what holds of the code: the claim for every result that is truthy, and for
\* a falsy result no alert at all (for 0 the text "0")
C23_PanelUnlessFalsy ==
    SubmitCompleted =>
      /\ (ret.success /\ Truthy(ret.data)) => Displayed = {SuccessAlert(ret.data)}
      /\ (ret.success /\ ~Truthy(ret.data))
           => Displayed = (IF ret.data = Num(0) THEN {TextNode(0)} ELSE {})
      /\ ~ret.success => Displayed = {ErrorAlert(errorMessage)}

\* a submit has ended in 'success' with the result null and nothing is displayed
C23_FalsyResultShowsNothing ==
    /\ formStatus = "success"
    /\ ret.success
    /\ formResult = Null
    /\ Displayed = {}

(***************************************************************************)
(* The chat dashboard.                                                     *)
(***************************************************************************)

\* the transcript from its second message on alternates user, assistant, ...
Alternates(list) ==
    \A i \in 2 .. Len(list) :
        list[i].role = (IF i % 2 = 0 THEN "user" ELSE "assistant")

\* the last message is a user message that has no reply yet
Awaiting == Len(messages) % 2 = 0

\* the contents of the sample questions
SampleTexts == {Str(SAMPLE_QUESTIONS[i]) : i \in 1 .. Len(SAMPLE_QUESTIONS)}

\* this step appends a user message to the transcript
Asked ==
    /\ Len(messages') = Len(messages) + 1
    /\ messages'[Len(messages')].role = "user"

\* this step appends an assistant message to the transcript
Replied ==
    /\ Len(messages') = Len(messages) + 1
    /\ messages'[Len(messages')].role = "assistant"

\* the transcript is kept and extended by at most one message
Extended ==
    /\ Len(messages') \in {Len(messages), Len(messages) + 1}
    /\ SubSeq(messages', 1, Len(messages)) = messages

\* the greeting, then user/assistant pairs, then at most one user message, which
\* is there exactly while isLoading, and a request only while isLoading
C24_TranscriptShape ==
    /\ messages[1] = Greeting
    /\ Alternates(messages)
    /\ Awaiting <=> isLoading
    /\ RequestInFlight => isLoading
    /\ \A i \in 2 .. Len(messages) : messages[i].content # Str("")

\* a request is made exactly when a user message is appended, and this when
\* isLoading is false and the message is the trimmed non-empty input or a sample
\* question; while isLoading the only message appended is the reply
C24_AskedOnlyWhenIdle ==
    /\ Extended
    /\ IsCall <=> Asked
    /\ Asked => /\ ~isLoading
                /\ ~RequestInFlight
                /\ \/ /\ Trim(input) # ""
                      /\ messages'[Len(messages')].content = Str(Trim(input))
                   \/ /\ showSamples
                      /\ messages'[Len(messages')].content \in SampleTexts
    /\ Replied => isLoading /\ ~RequestInFlight /\ ~isLoading'

\* C24.  At most one workflow request is in flight and the transcript alternates:
\* the message list is the greeting followed by user/assistant pairs and at most
\* one trailing user message awaiting its reply.  A submit with an empty trimmed
\* input or while isLoading, and a sample click while isLoading, append no
\* message and make no request.
C24_OneRequestAlternating ==
    []C24_TranscriptShape /\ [][C24_AskedOnlyWhenIdle]_vars

\* two questions were asked, one typed and one clicked, the first is answered
\* and the second awaits its reply with its request in flight
C24_Witness ==
    /\ Len(messages) = 4
    /\ isLoading
    /\ RequestInFlight
    /\ {messages[2].content, messages[4].content} \cap SampleTexts # {}
    /\ Str("top sellers") \in {messages[2].content, messages[4].content}

\* the content of the last message after this step
LastReply == messages'[Len(messages')].content

\* the reply to each outcome of the request: the JSON text of a body without
\* output and message, the quoted error of a failure envelope, the generic
\* apology after an exception
C25_ReplyByOutcome ==
    Replied =>
        /\ isLoading /\ ~isLoading'
        /\ messages'[Len(messages)].role = "user"
        /\ pc = "raised" => LastReply = Str(UnexpectedApology)
        /\ pc = "returned" /\ ~ret.success =>
               LastReply = Str("I apologize, but I encountered an error: " \o ret.error.s)
        /\ pc = "returned" /\ ret.success /\ ret.data = Null => LastReply = Str("null")
        /\ pc = "returned" /\ ret.success /\ ret.data # Null =>
               LastReply = Str("{\n  \"status\": \"completed\",\n  \"result\": 42\n}")

\* C25.  Every accepted user message is followed by exactly one assistant
\* message and isLoading returns to false, whatever the outcome of the request:
\* the reply to a success envelope is built from its data, the reply to a
\* failure envelope quotes its error, the reply after an exception is the
\* generic apology.  Once the invoker has returned the chat leaves the loading
\* state.
C25_EveryQuestionAnswered ==
    /\ isLoading ~> ~isLoading
    /\ \A n \in 1 .. MaxInvocations :
           (Len(messages) = 2 * n) ~> (Len(messages) = 2 * n + 1 /\ ~isLoading)
    /\ (isLoading /\ pc = "returned") ~> (~isLoading /\ ~Awaiting)
    /\ [][C25_ReplyByOutcome]_vars
    /\ [][isLoading /\ ~isLoading' => Replied]_vars

\* a question got the quoted HTTP error as its reply, the next one the JSON text
\* of the response, and the chat is idle again
C25_Witness ==
    /\ Len(messages) = 5
    /\ ~isLoading
    /\ messages[3].content = Str("I apologize, but I encountered an error: HTTP error! status: 500")
    /\ messages[5].content = Str("null")

\* C26.  All message ids of the transcript are pairwise distinct, with user ids
\* the clock reading at submit time, assistant ids the clock reading at response
\* time plus one, the greeting's id '1' and a non-decreasing millisecond clock.
C26_IdsDistinct ==
    \A i, j \in 1 .. Len(messages) : i # j => messages[i].id # messages[j].id

\* a reply and the question after it have the same id: the question was
\* submitted one millisecond after the reply was built
C26_ReplyAndNextQuestionShareId ==
    \E i \in 3 .. Len(messages) - 1 :
        /\ messages[i].role = "assistant"
        /\ messages[i + 1].role = "user"
        /\ messages[i].id = messages[i + 1].id
        /\ messages[i + 1].timestamp = messages[i].timestamp + 1

(***************************************************************************)
(* The settings page.                                                      *)
(***************************************************************************)

\* no request of the page is under way
AllSettled == inflight = {}

\* the user's keys as the table has them, newest first
StoredKeys == OwnedBy(store, user.id)

\* C27.  Once every add, delete and list request has settled, the displayed
\* key list equals the stored set of the user's keys, under every interleaving:
\* a reload response arriving out of order never leaves a stale list as the
\* final displayed state.
C27_SettledListIsStored ==
    Truthy(user) /\ AllSettled => apiKeys = StoredKeys

\* every request succeeded and has settled, the last message is that of the
\* successful delete, and the list still shows the deleted key: the reload
\* after the add arrived after the reload after the delete
C27_StaleAfterOvertaking ==
    /\ AllSettled
    /\ settled = 5
    /\ notice = DeleteSucceeded
    /\ Len(store) = 1
    /\ store[1].key_name = "OPENAI_API_KEY"
    /\ apiKeys = store \o <<EarlierKey>>

\* the inserts under way, and the requests this step sends and settles
Inserts == {r \in inflight : r.kind = "insert"}
Sent == {r \in inflight' : \A q \in inflight : q.n # r.n}
Gone == {r \in inflight : \A q \in inflight' : q.n # r.n}

\* saving is true exactly while an insert is under way, of which there is at
\* most one; every insert is the user's and has a name and a value; without a
\* user there is no request at all
C28_SavingWhileInserting ==
    /\ saving <=> Inserts # {}
    /\ Cardinality(Inserts) <= 1
    /\ \A r \in Inserts :
           /\ Truthy(user)
           /\ r.row.user_id = user.id
           /\ r.row.key_name # ""
           /\ r.row.encrypted_key # ""
    /\ ~Truthy(user) => inflight = {} /\ settled = 0

\* an insert is sent with the fields as they are, both non-empty; a failed
\* insert leaves fields and list and starts no reload, a successful one clears
\* the fields and starts one reload; a reload starts in no other step than the
\* one that settles a successful insert or delete
C28_AddStep ==
    /\ \A r \in Sent :
           /\ r.kind = "insert" =>
                  /\ Truthy(user) /\ keyName # "" /\ keyValue # ""
                  /\ r.row.key_name = keyName /\ r.row.encrypted_key = keyValue
                  /\ ~saving /\ saving' /\ notice' = Null
                  /\ UNCHANGED <<keyName, keyValue, apiKeys>>
           /\ r.kind = "select" =>
                  \E q \in Gone : q.kind \in {"insert", "delete"} /\ ~q.error
    /\ \A r \in Gone :
           r.kind = "insert" =>
               /\ saving /\ ~saving'
               /\ UNCHANGED <<apiKeys, store>>
               /\ IF r.error
                  THEN /\ UNCHANGED <<keyName, keyValue>>
                       /\ notice' = Notice("error", "Failed to add API key")
                       /\ Sent = {}
                  ELSE /\ keyName' = "" /\ keyValue' = ""
                       /\ notice' = Notice("success", "API key added successfully")
                       /\ Cardinality(Sent) = 1
                       /\ \A q \in Sent : q.kind = "select"

\* C28.  Adding a key makes no request unless a user is present and the key
\* name and the key value are both non-empty.  saving is true from the start of
\* an accepted add until its insert settles and false afterwards, on success and
\* on failure.  The fields are cleared and the list is reloaded only when the
\* insert succeeds; a failed insert leaves both fields and the displayed list
\* unchanged and shows an error message.
C28_AddKey == []C28_SavingWhileInserting /\ [][C28_AddStep]_vars

\* one add has succeeded and the next has failed: the fields are still filled
\* in, the error message is shown, saving is false
C28_Witness ==
    /\ notice = AddFailed
    /\ ~saving
    /\ keyName # "" /\ keyValue # ""
    /\ \E i \in 1 .. Len(store) : store[i].key_name = "OPENAI_API_KEY"
====
